---- MODULE Spec2Model ----
(***************************************************************************)
(* Model of the HTML/CSS to Webflow converter: the class naming system,    *)
(* the CSS parser's specificity calculation and rule extraction, the       *)
(* cascade matching of the conversion manager, and the convert pipeline.   *)
(*                                                                         *)
(* Text (class names, selectors, prefixes) is a sequence of one-character  *)
(* strings, so that the regular expressions of the source can be computed  *)
(* character by character.                                                 *)
(***************************************************************************)
EXTENDS Integers, Sequences, FiniteSets, TLC

VARIABLES
    classNamingSystem,  \* a ClassNamingSystem object: prefix, classMap, reverseMap, counter
    lastOp,             \* the method of the naming system called last
    lastArg,            \* its argument
    lastResult,         \* its return value
    before,             \* the naming system as it was when that call started
    spTokens,           \* the selector tokens a selector text is written from
    spSelector,         \* the selector text given to calculateSpecificity
    specificity,        \* the value calculateSpecificity returned
    spPc,               \* "call" before calculateSpecificity is called, "returned" after
    casSheet,           \* the rules of a stylesheet, in source order
    casElement,         \* an element given to findMatchingRules: type, classes, styles
    casRules,           \* the style rules the parser made of casSheet
    casMatching,        \* the rules findMatchingRules returned for casElement
    casPc,              \* the position in parse / findMatchingRules / applyStylesToElement
    manager,            \* a ConversionManager and the objects it owns
    frame,              \* the convert call in progress: its position and locals
    frames,             \* the convert calls in progress when calls overlap
    objects             \* the element objects created by overlapping calls

regVars == <<classNamingSystem, lastOp, lastArg, lastResult, before>>
spVars == <<spTokens, spSelector, specificity, spPc>>
casVars == <<casSheet, casElement, casRules, casMatching, casPc>>
cvVars == <<manager, frame, frames, objects>>

vars == <<classNamingSystem, lastOp, lastArg, lastResult, before,
          spTokens, spSelector, specificity, spPc,
          casSheet, casElement, casRules, casMatching, casPc,
          manager, frame, frames, objects>>

(***************************************************************************)
(* Characters and text                                                     *)
(***************************************************************************)
Lower == {"a","b","c","d","e","f","g","h","i","j","k","l","m",
          "n","o","p","q","r","s","t","u","v","w","x","y","z"}
Upper == {"A","B","C","D","E","F","G","H","I","J","K","L","M",
          "N","O","P","Q","R","S","T","U","V","W","X","Y","Z"}
Digit == {"0","1","2","3","4","5","6","7","8","9"}

\* [a-zA-Z_-]
NameStart == Lower \cup Upper \cup {"_", "-"}
\* [a-zA-Z0-9_-], which is also [\w-]
NameChar == Lower \cup Upper \cup Digit \cup {"_", "-"}

DigitChars == <<"0","1","2","3","4","5","6","7","8","9">>

\* Number to decimal text, as a template literal formats it.
RECURSIVE NatToStr(_)
NatToStr(n) ==
    IF n < 10 THEN <<DigitChars[n + 1]>>
    ELSE NatToStr(n \div 10) \o <<DigitChars[(n % 10) + 1]>>

\* The index after the longest run of characters of C that starts at i.
RECURSIVE RunEnd(_, _, _)
RunEnd(s, i, C) ==
    IF i <= Len(s) /\ s[i] \in C THEN RunEnd(s, i + 1, C) ELSE i

\* The set of the elements of a sequence.
Range(seq) == { seq[i] : i \in 1..Len(seq) }

\* The value a JavaScript lookup yields through "|| null" when nothing truthy is
\* found. It is no text: its one element is not a character.
Null == <<"null">>

EmptyMap == [k \in {} |-> <<>>]

(***************************************************************************)
(* ClassNamingSystem                                                       *)
(***************************************************************************)
DefaultPrefix == <<"h","t","m","l","2","w","f","-">>

NewClassNamingSystem(prefix) ==
    [prefix |-> prefix, classMap |-> EmptyMap, reverseMap |-> EmptyMap, counter |-> 0]

\* originalClassName && /^[a-zA-Z_-][a-zA-Z0-9_-]*$/.test(originalClassName)
IsValidName(s) ==
    /\ Len(s) > 0
    /\ s[1] \in NameStart
    /\ \A i \in 2..Len(s) : s[i] \in NameChar

ClassWord == <<"c","l","a","s","s","-">>

\* Variant: the fallback name is proposed without the prefix.
ProposedNameBare(cns, originalClassName) ==
    IF IsValidName(originalClassName)
    THEN cns.prefix \o originalClassName
    ELSE ClassWord \o NatToStr(cns.counter)

\* The name proposed for a new original, before the uniqueness loop.
ProposedName(cns, originalClassName) ==
    IF IsValidName(originalClassName)
    THEN cns.prefix \o originalClassName
    ELSE cns.prefix \o ClassWord \o NatToStr(cns.counter)

\* The uniqueness loop: generatedName, then generatedName-1, generatedName-2, ...
\* until the name is no key of reverseMap.
RECURSIVE UniqueNameLoop(_, _, _)
UniqueNameLoop(reverseMap, generatedName, suffix) ==
    LET uniqueName == IF suffix = 0 THEN generatedName
                      ELSE generatedName \o <<"-">> \o NatToStr(suffix)
    IN  IF uniqueName \in DOMAIN reverseMap
        THEN UniqueNameLoop(reverseMap, generatedName, suffix + 1)
        ELSE uniqueName

\* The number of names the uniqueness loop tests against reverseMap, the name
\* it ends on included.
RECURSIVE LoopProposals(_, _, _)
LoopProposals(reverseMap, generatedName, suffix) ==
    LET uniqueName == IF suffix = 0 THEN generatedName
                      ELSE generatedName \o <<"-">> \o NatToStr(suffix)
    IN  IF uniqueName \in DOMAIN reverseMap
        THEN LoopProposals(reverseMap, generatedName, suffix + 1)
        ELSE suffix + 1

\* Variant: the uniqueness loop is skipped.
UniqueNameNoLoop(reverseMap, generatedName) == generatedName

UniqueName(reverseMap, generatedName) == UniqueNameLoop(reverseMap, generatedName, 0)

\* Variant: the counter is left as it is.
RegisterKeepsCounter(cns, originalClassName) ==
    LET uniqueName == UniqueName(cns.reverseMap, ProposedName(cns, originalClassName))
    IN  [cns  |-> [cns EXCEPT !.classMap = (originalClassName :> uniqueName) @@ @,
                              !.reverseMap = (uniqueName :> originalClassName) @@ @],
         result |-> uniqueName]

\* A new original is registered in both maps and the counter is incremented.
Register(cns, originalClassName) ==
    LET uniqueName == UniqueName(cns.reverseMap, ProposedName(cns, originalClassName))
    IN  [cns  |-> [cns EXCEPT !.classMap = (originalClassName :> uniqueName) @@ @,
                              !.reverseMap = (uniqueName :> originalClassName) @@ @,
                              !.counter = @ + 1],
         result |-> uniqueName]

\* Variant: the check for an existing mapping is missing.
generateClassNameAlways(cns, originalClassName) == Register(cns, originalClassName)

\* generateClassName returns the new object state and the returned name.
generateClassName(cns, originalClassName) ==
    IF originalClassName \in DOMAIN cns.classMap
    THEN [cns |-> cns, result |-> cns.classMap[originalClassName]]
    ELSE Register(cns, originalClassName)

hasGeneratedClassName(cns, originalClassName) ==
    originalClassName \in DOMAIN cns.classMap

\* this.classMap.get(originalClassName) || null : the empty text is falsy.
getGeneratedClassName(cns, originalClassName) ==
    IF originalClassName \in DOMAIN cns.classMap /\ cns.classMap[originalClassName] # <<>>
    THEN cns.classMap[originalClassName]
    ELSE Null

\* this.reverseMap.get(generatedClassName) || null : the empty text is falsy.
getOriginalClassName(cns, generatedClassName) ==
    IF generatedClassName \in DOMAIN cns.reverseMap /\ cns.reverseMap[generatedClassName] # <<>>
    THEN cns.reverseMap[generatedClassName]
    ELSE Null

\* selector.replace(/\.([\w-]+)/g, callback), scanning from index i: every dot
\* followed by at least one [\w-] character is a match that extends over the
\* longest run of such characters; the callback registers the class when it is
\* unknown and returns "." + the generated name.
RECURSIVE ReplaceClassTokens(_, _, _)
ReplaceClassTokens(cns, selector, i) ==
    IF i > Len(selector) THEN [cns |-> cns, result |-> <<>>]
    ELSE IF selector[i] = "." /\ RunEnd(selector, i + 1, NameChar) > i + 1
    THEN LET j == RunEnd(selector, i + 1, NameChar)
             className == SubSeq(selector, i + 1, j - 1)
             cns1 == IF ~hasGeneratedClassName(cns, className)
                     THEN generateClassName(cns, className).cns
                     ELSE cns
             generatedName == getGeneratedClassName(cns1, className)
             piece == IF generatedName # Null THEN <<".">> \o generatedName
                      ELSE SubSeq(selector, i, j - 1)
             rest == ReplaceClassTokens(cns1, selector, j)
         IN  [cns |-> rest.cns, result |-> piece \o rest.result]
    ELSE LET rest == ReplaceClassTokens(cns, selector, i + 1)
         IN  [cns |-> rest.cns, result |-> <<selector[i]>> \o rest.result]

\* Variant: the rewritten text is returned and the registrations are dropped.
transformSelectorUnregistered(cns, selector) ==
    [cns |-> cns, result |-> ReplaceClassTokens(cns, selector, 1).result]

transformSelector(cns, selector) == ReplaceClassTokens(cns, selector, 1)

ProtoKey == <<"_","_","p","r","o","t","o","_","_">>

\* getAllClassMappings copies the entries into a plain object with
\* mappings[original] = generated. For the key __proto__ that assignment goes
\* to the prototype setter, which ignores a string: the object gets no entry.
getAllClassMappings(cns) ==
    [original \in DOMAIN cns.classMap \ {ProtoKey} |-> cns.classMap[original]]

\* Variant: the maps are cleared and the counter is kept.
resetKeepsCounter(cns) == [cns EXCEPT !.classMap = EmptyMap, !.reverseMap = EmptyMap]

\* reset: both maps are cleared and the counter is set to 0.
reset(cns) == [cns EXCEPT !.classMap = EmptyMap, !.reverseMap = EmptyMap, !.counter = 0]

(***************************************************************************)
(* CSSParser                                                               *)
(***************************************************************************)
\* The end (index after the last character) of the match of /#[a-zA-Z0-9_-]+/
\* that starts at i, or 0 when none starts there.
IdMatchEnd(s, i) ==
    IF s[i] = "#" /\ RunEnd(s, i + 1, NameChar) > i + 1
    THEN RunEnd(s, i + 1, NameChar) ELSE 0

\* \[.+?\] : an opening bracket, one or more characters other than a line
\* break, as few as possible, and a closing bracket.
AttrMatchEnd(s, i) ==
    LET closers == { j \in (i + 2)..Len(s) :
                        /\ s[j] = "]"
                        /\ \A k \in (i + 1)..(j - 1) : s[k] # "\n" }
    IN  IF closers = {} THEN 0
        ELSE (CHOOSE j \in closers : \A k \in closers : j <= k) + 1

\* /\.[a-zA-Z0-9_-]+|\[.+?\]|:[a-zA-Z0-9_-]+/
ClassMatchEnd(s, i) ==
    IF s[i] \in {".", ":"} /\ RunEnd(s, i + 1, NameChar) > i + 1
    THEN RunEnd(s, i + 1, NameChar)
    ELSE IF s[i] = "[" THEN AttrMatchEnd(s, i)
    ELSE 0

\* /[a-zA-Z0-9_-]+|::[a-zA-Z0-9_-]+/
ElementMatchEnd(s, i) ==
    IF s[i] \in NameChar THEN RunEnd(s, i, NameChar)
    ELSE IF /\ s[i] = ":"
            /\ i + 1 <= Len(s)
            /\ s[i + 1] = ":"
            /\ RunEnd(s, i + 2, NameChar) > i + 2
    THEN RunEnd(s, i + 2, NameChar)
    ELSE 0

MatchEnd(kind, s, i) ==
    CASE kind = "id" -> IdMatchEnd(s, i)
      [] kind = "class" -> ClassMatchEnd(s, i)
      [] kind = "element" -> ElementMatchEnd(s, i)

\* (selector.match(/.../g) || []).length : the matches are found left to right
\* and do not overlap.
RECURSIVE CountMatches(_, _, _)
CountMatches(kind, s, i) ==
    IF i > Len(s) THEN 0
    ELSE IF MatchEnd(kind, s, i) > 0
    THEN 1 + CountMatches(kind, s, MatchEnd(kind, s, i))
    ELSE CountMatches(kind, s, i + 1)

IdWeight == 100
ClassWeight == 10

\* Variant: a class, attribute or pseudo-class match weighs as much as an
\* element match.
calculateSpecificityFlat(selector) ==
    CountMatches("id", selector, 1) * IdWeight
        + CountMatches("class", selector, 1) + CountMatches("element", selector, 1)

calculateSpecificity(selector) ==
    LET idCount == CountMatches("id", selector, 1)
        classCount == CountMatches("class", selector, 1)
        elementCount == CountMatches("element", selector, 1)
    IN  idCount * IdWeight + classCount * ClassWeight + elementCount

\* A node of the PostCSS tree is a rule (selector, decls) or an at-rule (name,
\* params, nodes); every node carries all the fields, the unused ones empty.
RuleNode(selector, decls) ==
    [type |-> "rule", selector |-> selector, decls |-> decls,
     name |-> "", params |-> "", nodes |-> <<>>]

AtRuleNode(name, params, nodes) ==
    [type |-> "atrule", selector |-> <<>>, decls |-> <<>>,
     name |-> name, params |-> params, nodes |-> nodes]

\* rule.walkDecls: properties[decl.prop] = decl.value, a later declaration of a
\* property replacing an earlier one.
RECURSIVE DeclsToProperties(_)
DeclsToProperties(decls) ==
    IF decls = <<>> THEN [p \in {} |-> ""]
    ELSE LET d == decls[Len(decls)]
             init == DeclsToProperties(SubSeq(decls, 1, Len(decls) - 1))
         IN  (d.prop :> d.value) @@ init

\* The rule record processRule builds; originalRule stands for rule.toString().
processRule(rule) ==
    [selector |-> rule.selector,
     specificity |-> calculateSpecificity(rule.selector),
     properties |-> DeclsToProperties(rule.decls),
     originalRule |-> [selector |-> rule.selector, decls |-> rule.decls]]

\* container.walkRules: every rule below the container in document order, each
\* with its parent node's type and name.
RECURSIVE WalkRules(_, _)
WalkRules(nodes, parent) ==
    IF nodes = <<>> THEN <<>>
    ELSE LET n == Head(nodes)
             here == IF n.type = "rule"
                     THEN << [rule |-> n, parent |-> parent] >>
                     ELSE WalkRules(n.nodes, [type |-> "atrule", name |-> n.name])
         IN  here \o WalkRules(Tail(nodes), parent)

\* container.walkAtRules(name): every at-rule of that name below the container
\* in document order, an at-rule before the at-rules nested in it.
RECURSIVE WalkAtRules(_, _)
WalkAtRules(nodes, name) ==
    IF nodes = <<>> THEN <<>>
    ELSE LET n == Head(nodes)
             here == IF n.type = "atrule"
                     THEN (IF n.name = name THEN <<n>> ELSE <<>>)
                          \o WalkAtRules(n.nodes, name)
                     ELSE <<>>
         IN  here \o WalkAtRules(Tail(nodes), name)

RootParent == [type |-> "root", name |-> ""]

\* The first walk of parse: a rule is skipped when its parent is an @media
\* at-rule, every other rule is processed and pushed on styleRules.
SkippedAsMediaRule(w) == w.parent.type = "atrule" /\ w.parent.name = "media"

ParseStyleRules(root) ==
    LET walked == WalkRules(root, RootParent)
        kept == SelectSeq(walked, LAMBDA w : ~SkippedAsMediaRule(w))
    IN  [i \in 1..Len(kept) |-> processRule(kept[i].rule)]

\* The second walk of parse: one media query per @media at-rule, holding every
\* rule below that at-rule.
ParseMediaQueries(root) ==
    LET atRules == WalkAtRules(root, "media")
        RulesOf(atRule) ==
            LET walked == WalkRules(atRule.nodes, [type |-> "atrule", name |-> atRule.name])
            IN  [i \in 1..Len(walked) |-> processRule(walked[i].rule)]
    IN  [i \in 1..Len(atRules) |->
            [query |-> atRules[i].params, rules |-> RulesOf(atRules[i])]]

\* CSSParser.parse on the tree PostCSS returns for the stylesheet text.
parseCss(root) ==
    [styleRules |-> ParseStyleRules(root), mediaQueries |-> ParseMediaQueries(root)]

\* String.prototype.trim: the text without the white space at its two ends.
RECURSIVE trim(_)
trim(s) ==
    IF s = <<>> THEN s
    ELSE IF s[1] \in {" ", "\t", "\n"} THEN trim(Tail(s))
    ELSE IF s[Len(s)] \in {" ", "\t", "\n"} THEN trim(SubSeq(s, 1, Len(s) - 1))
    ELSE s

\* selector.split(','): the pieces between the commas, from index i on.
RECURSIVE SplitOnComma(_, _)
SplitOnComma(s, i) ==
    LET commas == { j \in i..Len(s) : s[j] = "," }
    IN  IF commas = {} THEN << SubSeq(s, i, Len(s)) >>
        ELSE LET j == CHOOSE k \in commas : \A m \in commas : k <= m
             IN  << SubSeq(s, i, j - 1) >> \o SplitOnComma(s, j + 1)

\* CSSParser.findMatchingRules: the rules of styleRules of which one
\* comma-separated part, trimmed, equals elementSelector.
parserFindMatchingRules(styleRules, elementSelector) ==
    SelectSeq(styleRules,
              LAMBDA rule :
                  LET selectors == SplitOnComma(rule.selector, 1)
                  IN  \E i \in 1..Len(selectors) : trim(selectors[i]) = elementSelector)

(***************************************************************************)
(* HTMLParser                                                              *)
(***************************************************************************)
UpperChars == <<"A","B","C","D","E","F","G","H","I","J","K","L","M",
                "N","O","P","Q","R","S","T","U","V","W","X","Y","Z">>
LowerChars == <<"a","b","c","d","e","f","g","h","i","j","k","l","m",
                "n","o","p","q","r","s","t","u","v","w","x","y","z">>

LowerChar(c) ==
    IF c \in Upper
    THEN LowerChars[CHOOSE i \in 1..Len(UpperChars) : UpperChars[i] = c]
    ELSE c

\* String.prototype.toLowerCase
toLowerCase(s) == [i \in 1..Len(s) |-> LowerChar(s[i])]

\* The tagMap table of mapElementType, on lower-case tag names.
tagMap ==
    ( <<"d","i","v">> :> <<"d","i","v">> ) @@
    ( <<"s","p","a","n">> :> <<"t","e","x","t">> ) @@
    ( <<"p">> :> <<"p","a","r","a","g","r","a","p","h">> ) @@
    ( <<"h","1">> :> <<"h","e","a","d","i","n","g">> ) @@
    ( <<"h","2">> :> <<"h","e","a","d","i","n","g">> ) @@
    ( <<"a">> :> <<"l","i","n","k">> ) @@
    ( <<"u","l">> :> <<"l","i","s","t">> ) @@
    ( <<"l","i">> :> <<"l","i","s","t","I","t","e","m">> ) @@
    ( <<"s","e","c","t","i","o","n">> :> <<"s","e","c","t","i","o","n">> ) @@
    ( <<"a","r","t","i","c","l","e">> :> <<"d","i","v">> ) @@
    ( <<"n","a","v">> :> <<"n","a","v">> )

DivType == <<"d","i","v">>

ConstructorKey == <<"c","o","n","s","t","r","u","c","t","o","r">>

\* The function Object, which tagMap inherits under the key "constructor"; as
\* a property key it is the text of the function.
ObjectFunction == <<"function Object() { [native code] }">>

\* tagMap[tagName.toLowerCase()] || 'div': tagMap is an object literal, so the
\* lookup of "constructor" finds the inherited property, which is truthy.
mapElementType(tagName) ==
    IF tagName = <<>> THEN DivType
    ELSE IF toLowerCase(tagName) = ConstructorKey THEN ObjectFunction
    ELSE IF toLowerCase(tagName) \in DOMAIN tagMap THEN tagMap[toLowerCase(tagName)]
    ELSE DivType

WhiteSpace == {" ", "\t", "\n"}

\* attr.split(/\s+/).filter(Boolean): the maximal runs of characters that are
\* no white space, in order.
RECURSIVE SplitClasses(_, _)
SplitClasses(attr, i) ==
    IF i > Len(attr) THEN <<>>
    ELSE IF attr[i] \in WhiteSpace THEN SplitClasses(attr, i + 1)
    ELSE LET j == CHOOSE k \in (i + 1)..(Len(attr) + 1) :
                     /\ \A m \in i..(k - 1) : attr[m] \notin WhiteSpace
                     /\ (k = Len(attr) + 1 \/ attr[k] \in WhiteSpace)
         IN  <<SubSeq(attr, i, j - 1)>> \o SplitClasses(attr, j)

\* A node of the document cheerio loads: tagName, the class attribute (the empty
\* text when the element has none), the direct text, and the child elements.
DomNode(tagName, class, text, children) ==
    [tagName |-> tagName, class |-> class, text |-> text, children |-> children]

ParsedId(n) == <<"el", n>>

textElements == { <<"p">>, <<"s","p","a","n">>, <<"h","1">>, <<"h","2">>, <<"a">> }

\* getElementContent: the direct text of the elements that carry text, and the
\* empty string for the others.
getElementContent(node) ==
    IF toLowerCase(node.tagName) \in textElements THEN node.text ELSE ""

\* parseElement: the element takes the next id, then its children are parsed
\* in order. Returns the parsed element and the id counter after it.
RECURSIVE parseElement(_, _)
RECURSIVE ParseChildren(_, _)
ParseChildren(children, idCounter) ==
    IF children = <<>> THEN [elements |-> <<>>, idCounter |-> idCounter]
    ELSE LET first == parseElement(Head(children), idCounter)
             rest == ParseChildren(Tail(children), first.idCounter)
         IN  [elements |-> <<first.element>> \o rest.elements,
              idCounter |-> rest.idCounter]

parseElement(node, idCounter) ==
    LET kids == ParseChildren(node.children, idCounter + 1)
    IN  [element |-> [id |-> ParsedId(idCounter),
                      tagName |-> node.tagName,
                      type |-> mapElementType(node.tagName),
                      classes |-> IF node.class # <<>>
                                  THEN SplitClasses(node.class, 1) ELSE <<>>,
                      content |-> getElementContent(node),
                      children |-> kids.elements],
         idCounter |-> kids.idCounter]

BodyTag == <<"b","o","d","y">>

\* HTMLParser.parse: cheerio wraps the markup in a body element, the counter
\* restarts at 0 and the body is the root of the parsed tree.
parseHtml(markup) == parseElement(DomNode(BodyTag, <<>>, "", markup), 0).element

(***************************************************************************)
(* WebflowElementMapper                                                    *)
(***************************************************************************)
\* loadElementPresets: element type -> preset id.
loadElementPresets ==
    ( <<"d","i","v">> :> "preset-div" ) @@
    ( <<"t","e","x","t">> :> "preset-text" ) @@
    ( <<"p","a","r","a","g","r","a","p","h">> :> "preset-paragraph" ) @@
    ( <<"h","e","a","d","i","n","g">> :> "preset-heading" ) @@
    ( <<"l","i","n","k">> :> "preset-link" ) @@
    ( <<"l","i","s","t">> :> "preset-list" ) @@
    ( <<"l","i","s","t","I","t","e","m">> :> "preset-list-item" ) @@
    ( <<"s","e","c","t","i","o","n">> :> "preset-section" ) @@
    ( <<"n","a","v">> :> "preset-nav" )

WebflowId(parsedId) == <<"webflow">> \o parsedId

NoStyles == [p \in {} |-> ""]

\* createRootElement / createChildElement: the created object has no classes
\* field; a child also names its parent.
createRootElement(parsedElement, preset) ==
    [id |-> WebflowId(parsedElement.id), type |-> parsedElement.type, preset |-> preset,
     styles |-> NoStyles, children |-> <<>>]

createChildElement(parsedElement, preset, parentId) ==
    createRootElement(parsedElement, preset) @@ ("parent" :> parentId)

\* setElementContent runs when the parsed content is a non-empty string.
WithContent(webflowElement, parsedElement) ==
    IF parsedElement.content # ""
    THEN ("content" :> parsedElement.content) @@ webflowElement
    ELSE webflowElement

\* createdElements is a Map: a sequence of entries in insertion order.
Lookup(created, key) ==
    created[CHOOSE i \in 1..Len(created) : created[i].key = key].element

HasKey(created, key) == \E i \in 1..Len(created) : created[i].key = key

\* Map.set: a new key is appended, an existing key keeps its place.
MapSet(created, key, element) ==
    IF HasKey(created, key)
    THEN [i \in 1..Len(created) |->
            IF created[i].key = key THEN [key |-> key, element |-> element] ELSE created[i]]
    ELSE Append(created, [key |-> key, element |-> element])

\* Variant: the child's id is put in front of the parent's children.
PushChildFront(created, parentKey, childId) ==
    [i \in 1..Len(created) |->
        IF created[i].key = parentKey
        THEN [created[i] EXCEPT !.element.children = <<childId>> \o @]
        ELSE created[i]]

\* parentElement.children.push(element.id) on the parent object in the table.
PushChild(created, parentKey, childId) ==
    [i \in 1..Len(created) |->
        IF created[i].key = parentKey
        THEN [created[i] EXCEPT !.element.children = Append(@, childId)]
        ELSE created[i]]

\* mapElement: the element is created (and appended to its parent's children),
\* stored under the parsed id, then its children are mapped in order. A type
\* without preset ends in the assignment to the constant "preset", which throws.
RECURSIVE mapElement(_, _, _, _, _)
RECURSIVE MapChildren(_, _, _, _)
MapChildren(elementPresets, created, children, parentKey) ==
    IF children = <<>> THEN [created |-> created, error |-> FALSE]
    ELSE LET first == mapElement(elementPresets, created, Head(children), TRUE, parentKey)
         IN  IF first.error THEN first
             ELSE MapChildren(elementPresets, first.created, Tail(children), parentKey)

mapElement(elementPresets, created, parsedElement, hasParent, parentKey) ==
    IF parsedElement.type \notin DOMAIN elementPresets
    THEN [created |-> created, error |-> TRUE]
    ELSE LET preset == elementPresets[parsedElement.type]
             webflowElement ==
                 WithContent(
                     IF hasParent
                     THEN createChildElement(parsedElement, preset,
                                             WebflowId(parentKey))
                     ELSE createRootElement(parsedElement, preset),
                     parsedElement)
             linked == IF hasParent
                       THEN PushChild(created, parentKey, webflowElement.id)
                       ELSE created
             stored == MapSet(linked, parsedElement.id, webflowElement)
         IN  MapChildren(elementPresets, stored, parsedElement.children, parsedElement.id)

\* mapToWebflow: the table is cleared and the tree is mapped from its root. The
\* object returned is the one stored under the root's parsed id; root names it
\* by that key.
mapToWebflow(elementPresets, parsedStructure) ==
    LET mapped == mapElement(elementPresets, <<>>, parsedStructure, FALSE,
                             parsedStructure.id)
    IN  [created |-> mapped.created, error |-> mapped.error, root |-> parsedStructure.id]

\* applyStyles: Object.assign(webflowElement.styles, styles)
applyStyles(webflowElement, styles) ==
    [webflowElement EXCEPT !.styles = styles @@ @]

\* applyClass: the classes array is created on first use.
applyClass(webflowElement, className) ==
    IF "classes" \in DOMAIN webflowElement
    THEN [webflowElement EXCEPT !.classes = Append(@, className)]
    ELSE ("classes" :> <<className>>) @@ webflowElement

(***************************************************************************)
(* ConversionManager                                                       *)
(***************************************************************************)
\* preGenerateClassNames: the classes of the element in list order, then the
\* children in order, each with its own subtree.
RECURSIVE GenerateAll(_, _)
GenerateAll(cns, classes) ==
    IF classes = <<>> THEN cns
    ELSE GenerateAll(generateClassName(cns, Head(classes)).cns, Tail(classes))

RECURSIVE preGenerateClassNames(_, _)
RECURSIVE PreGenerateChildren(_, _)
PreGenerateChildren(cns, children) ==
    IF children = <<>> THEN cns
    ELSE PreGenerateChildren(preGenerateClassNames(cns, Head(children)), Tail(children))

\* Variant: the children are visited before the element's own classes.
preGenerateChildrenFirst(cns, parsedHtml) ==
    GenerateAll(PreGenerateChildren(cns, parsedHtml.children), parsedHtml.classes)

preGenerateClassNames(cns, parsedHtml) ==
    PreGenerateChildren(GenerateAll(cns, parsedHtml.classes), parsedHtml.children)

\* { ...rule, selector: transformedSelector, originalSelector: rule.selector }
\* for each rule in order; the specificity is the one the parser computed.
RECURSIVE TransformRules(_, _)
TransformRules(cns, rules) ==
    IF rules = <<>> THEN [cns |-> cns, rules |-> <<>>]
    ELSE LET rule == Head(rules)
             t == transformSelector(cns, rule.selector)
             rest == TransformRules(t.cns, Tail(rules))
         IN  [cns |-> rest.cns,
              rules |-> << [selector |-> t.result,
                            specificity |-> rule.specificity,
                            properties |-> rule.properties,
                            originalRule |-> rule.originalRule,
                            originalSelector |-> rule.selector] >> \o rest.rules]

RECURSIVE TransformMediaQueries(_, _)
TransformMediaQueries(cns, mediaQueries) ==
    IF mediaQueries = <<>> THEN [cns |-> cns, mediaQueries |-> <<>>]
    ELSE LET mediaQuery == Head(mediaQueries)
             t == TransformRules(cns, mediaQuery.rules)
             rest == TransformMediaQueries(t.cns, Tail(mediaQueries))
         IN  [cns |-> rest.cns,
              mediaQueries |-> << [query |-> mediaQuery.query, rules |-> t.rules] >>
                               \o rest.mediaQueries]

\* processCssClasses: the top-level rules first, then the media queries.
processCssClasses(cns, parsedCss) ==
    LET top == TransformRules(cns, parsedCss.styleRules)
        media == TransformMediaQueries(top.cns, parsedCss.mediaQueries)
    IN  [cns |-> media.cns,
         processedCss |-> [styleRules |-> top.rules, mediaQueries |-> media.mediaQueries]]

\* stylesBySelector: the rules grouped by selector text, each group in the
\* order of styleRules.
RECURSIVE GroupBySelector(_)
GroupBySelector(styleRules) ==
    IF styleRules = <<>> THEN [k \in {} |-> <<>>]
    ELSE LET rule == styleRules[Len(styleRules)]
             init == GroupBySelector(SubSeq(styleRules, 1, Len(styleRules) - 1))
         IN  IF rule.selector \in DOMAIN init
             THEN [init EXCEPT ![rule.selector] = Append(@, rule)]
             ELSE (rule.selector :> <<rule>>) @@ init

\* Array.prototype.sort with (a, b) => a.specificity - b.specificity: ascending
\* and stable, rules of equal specificity keep their order.
RECURSIVE SortBySpecificity(_)
SortBySpecificity(rules) ==
    IF rules = <<>> THEN <<>>
    ELSE LET rule == rules[Len(rules)]
             sorted == SortBySpecificity(SubSeq(rules, 1, Len(rules) - 1))
             k == Cardinality({ i \in 1..Len(sorted) :
                                   sorted[i].specificity <= rule.specificity })
         IN  SubSeq(sorted, 1, k) \o <<rule>> \o SubSeq(sorted, k + 1, Len(sorted))

\* The rules of stylesBySelector["." + className] for each class of the element
\* in class-list order (when the element has a classes field), followed by the
\* rules of stylesBySelector[element.type.toLowerCase()].
RECURSIVE ClassRules(_, _)
ClassRules(classes, stylesBySelector) ==
    IF classes = <<>> THEN <<>>
    ELSE LET classSelector == <<".">> \o Head(classes)
         IN  (IF classSelector \in DOMAIN stylesBySelector
              THEN stylesBySelector[classSelector] ELSE <<>>)
             \o ClassRules(Tail(classes), stylesBySelector)

CandidateRules(element, stylesBySelector) ==
    LET typeSelector == toLowerCase(element.type)
    IN  (IF "classes" \in DOMAIN element
         THEN ClassRules(element.classes, stylesBySelector) ELSE <<>>)
        \o (IF typeSelector \in DOMAIN stylesBySelector
            THEN stylesBySelector[typeSelector] ELSE <<>>)

\* Variant: the candidates are not sorted by specificity.
findMatchingRulesUnsorted(element, stylesBySelector) ==
    CandidateRules(element, stylesBySelector)

findMatchingRules(element, stylesBySelector) ==
    SortBySpecificity(CandidateRules(element, stylesBySelector))

\* Variant: a property keeps the value of the first rule that sets it.
RECURSIVE MergeFirstWins(_)
MergeFirstWins(rules) ==
    IF rules = <<>> THEN NoStyles
    ELSE Head(rules).properties @@ MergeFirstWins(Tail(rules))

\* mergedProperties: the rules in order, a later rule overriding an earlier one.
RECURSIVE MergeLaterWins(_)
MergeLaterWins(rules) ==
    IF rules = <<>> THEN NoStyles
    ELSE rules[Len(rules)].properties @@ MergeLaterWins(SubSeq(rules, 1, Len(rules) - 1))

MergeProperties(rules) == MergeLaterWins(rules)

applyStylesToElement(element, rules) == applyStyles(element, MergeProperties(rules))

\* applyStylesToElements: every element of the mapper's table gets the merged
\* properties of its matching top-level rules; an element without matching
\* rule is left alone.
applyStylesToElements(created, processedCss) ==
    LET stylesBySelector == GroupBySelector(processedCss.styleRules)
        Styled(element) ==
            LET matchingRules == findMatchingRules(element, stylesBySelector)
            IN  IF Len(matchingRules) > 0
                THEN applyStylesToElement(element, matchingRules)
                ELSE element
    IN  [i \in 1..Len(created) |->
            [key |-> created[i].key, element |-> Styled(created[i].element)]]

(***************************************************************************)
(* Specification Spec: one ClassNamingSystem object and its callers        *)
(***************************************************************************)
\* The object may register this many originals before it is reset.
MaxRegistered == 3

Prefixes == { <<"w","f","-">>, DefaultPrefix }

\* Arguments of generateClassName: the empty text, names of identifier shape,
\* a name starting with a digit, and names that look like generated fallbacks.
Originals ==
    { <<>>, <<"a">>, <<"x">>, <<"1">>, <<"c","l","a","s","s","-","1">>,
      <<"c","l","a","s","s","-","2">>, <<"c","l","a","s","s","-","2","-","1">> }

\* A selector text is written from tokens: a token has a kind and a text.
Token(kind, text) == [kind |-> kind, text |-> text]

RECURSIVE TokensText(_)
TokensText(ts) ==
    IF ts = <<>> THEN <<>> ELSE Head(ts).text \o TokensText(Tail(ts))

\* Arguments of transformSelector, token by token:
\* .a    p .x    .1.a    #i .class-1    a:hover>.a-b[h]
SelectorTokenSequences ==
    { << Token("class", <<".","a">>) >>,
      << Token("tag", <<"p">>), Token("combinator", <<" ">>),
         Token("class", <<".","x">>) >>,
      << Token("class", <<".","1">>), Token("class", <<".","a">>) >>,
      << Token("id", <<"#","i">>), Token("combinator", <<" ">>),
         Token("class", <<".","c","l","a","s","s","-","1">>) >>,
      << Token("tag", <<"a">>), Token("pseudoClass", <<":","h","o","v","e","r">>),
         Token("combinator", <<">">>), Token("class", <<".","a","-","b">>),
         Token("attribute", <<"[","h","]">>) >> }

\* A selector with a dot inside the value of an attribute selector:
\* a[href$=".png"]
AttributeValueSequences ==
    { << Token("tag", <<"a">>),
         Token("attribute", <<"[","h","r","e","f","$","=","\"",".","p","n","g","\"","]">>) >> }

Selectors ==
    { TokensText(ts) : ts \in SelectorTokenSequences \cup AttributeValueSequences }

NoText == <<>>

\* The variables of the parts a specification does not use stay at these values.
RegUnused ==
    /\ classNamingSystem = NewClassNamingSystem(DefaultPrefix)
    /\ lastOp = "unused"
    /\ lastArg = NoText
    /\ lastResult = NoText
    /\ before = NewClassNamingSystem(DefaultPrefix)

SpUnused ==
    /\ spTokens = <<>>
    /\ spSelector = NoText
    /\ specificity = 0
    /\ spPc = "unused"

CasUnused ==
    /\ casSheet = <<>>
    /\ casElement = [type |-> NoText, styles |-> NoStyles]
    /\ casRules = <<>>
    /\ casMatching = <<>>
    /\ casPc = "unused"

CvUnused ==
    /\ manager = [conversionStatus |-> "unused"]
    /\ frame = [pc |-> "unused"]
    /\ frames = <<>>
    /\ objects = <<>>

RegInit ==
    /\ \E prefix \in Prefixes : classNamingSystem = NewClassNamingSystem(prefix)
    /\ lastOp = "new"
    /\ lastArg = NoText
    /\ lastResult = NoText
    /\ before = classNamingSystem

Init == RegInit /\ SpUnused /\ CasUnused /\ CvUnused

RegOnly == UNCHANGED <<spVars, casVars, cvVars>>

MayRegister == Cardinality(DOMAIN classNamingSystem.classMap) < MaxRegistered

GenerateClassName ==
    \E s \in Originals :
        /\ MayRegister
        /\ LET r == generateClassName(classNamingSystem, s)
           IN  /\ classNamingSystem' = r.cns
               /\ lastResult' = r.result
        /\ lastOp' = "generateClassName"
        /\ lastArg' = s
        /\ before' = classNamingSystem
        /\ RegOnly

TransformSelector ==
    \E t \in Selectors :
        /\ MayRegister
        /\ LET r == transformSelector(classNamingSystem, t)
           IN  /\ classNamingSystem' = r.cns
               /\ lastResult' = r.result
        /\ lastOp' = "transformSelector"
        /\ lastArg' = t
        /\ before' = classNamingSystem
        /\ RegOnly

\* The selector text that transformSelector returned is passed to it again.
TransformAgain ==
    /\ lastOp = "transformSelector"
    /\ LET r == transformSelector(classNamingSystem, lastResult)
       IN  /\ classNamingSystem' = r.cns
           /\ lastResult' = r.result
    /\ lastOp' = "transformAgain"
    /\ lastArg' = lastResult
    /\ before' = classNamingSystem
    /\ RegOnly

\* getOriginalClassName(getGeneratedClassName(s)) for a registered s.
LookupRoundTrip ==
    \E s \in DOMAIN classNamingSystem.classMap :
        /\ lastOp' = "lookup"
        /\ lastArg' = s
        /\ lastResult' = getOriginalClassName(classNamingSystem,
                             getGeneratedClassName(classNamingSystem, s))
        /\ before' = classNamingSystem
        /\ UNCHANGED classNamingSystem
        /\ RegOnly

Reset ==
    /\ classNamingSystem' = reset(classNamingSystem)
    /\ lastOp' = "reset"
    /\ lastArg' = NoText
    /\ lastResult' = NoText
    /\ before' = classNamingSystem
    /\ RegOnly

Next ==
    \/ GenerateClassName
    \/ TransformSelector
    \/ TransformAgain
    \/ LookupRoundTrip
    \/ Reset

Spec == Init /\ [][Next]_vars

(***************************************************************************)
(* Properties of the naming system, checked under Spec                     *)
(***************************************************************************)
\* C1: calling generateClassName(s) twice returns the same name both times and
\* the second call leaves classMap, reverseMap and counter unchanged; the first
\* call adds at most the entry of s. Stated for every s in every reachable
\* object state, and for the calls the run has made on a registered s.
IdempotentNaming ==
    /\ \A s \in Originals :
          LET r1 == generateClassName(classNamingSystem, s)
              r2 == generateClassName(r1.cns, s)
          IN  /\ r2.result = r1.result
              /\ r2.cns = r1.cns
              /\ DOMAIN r1.cns.classMap \subseteq DOMAIN classNamingSystem.classMap \cup {s}
    /\ (lastOp = "generateClassName" /\ lastArg \in DOMAIN before.classMap)
          => /\ lastResult = before.classMap[lastArg]
             /\ classNamingSystem = before

\* C1 witness: generateClassName was called on a string that was registered.
SecondGenerateCall ==
    /\ lastOp = "generateClassName"
    /\ lastArg \in DOMAIN before.classMap
    /\ before.counter > 1

\* C2: for every registered s, the empty string included,
\* getOriginalClassName(getGeneratedClassName(s)) equals s.
LookupRoundTripIsIdentity ==
    lastOp = "lookup" => lastResult = lastArg

\* C3: classMap and reverseMap are mutual inverses: classMap maps o to g exactly
\* when reverseMap maps g to o.
MapsAreMutualInverses ==
    LET classMap == classNamingSystem.classMap
        reverseMap == classNamingSystem.reverseMap
    IN  /\ \A o \in DOMAIN classMap :
              classMap[o] \in DOMAIN reverseMap /\ reverseMap[classMap[o]] = o
        /\ \A g \in DOMAIN reverseMap :
              reverseMap[g] \in DOMAIN classMap /\ classMap[reverseMap[g]] = g

\* C3 witness: a proposal collided with a registered generated name, so the
\* uniqueness loop appended a suffix.
CollisionResolved ==
    /\ lastOp \in {"generateClassName", "transformSelector"}
    /\ \E o \in DOMAIN classNamingSystem.classMap \ DOMAIN before.classMap :
          /\ ProposedName(before, o) \in DOMAIN before.reverseMap
          /\ classNamingSystem.classMap[o] = ProposedName(before, o) \o <<"-", "1">>

\* C4: passing the text returned by transformSelector to transformSelector again
\* returns it unchanged and registers no new identifier.
RewriteIsIdempotent ==
    lastOp = "transformAgain"
        => /\ lastResult = lastArg
           /\ classNamingSystem = before

\* s begins with the text p.
BeginsWith(s, p) == Len(s) >= Len(p) /\ SubSeq(s, 1, Len(p)) = p

\* The name the format rule gives a new original in the registry state b: the
\* proposal, or the proposal with the smallest suffix -k, k >= 1, that is no
\* generated name yet.
FormatName(b, original) ==
    LET identifier == /\ original # <<>>
                      /\ original[1] \in Lower \cup Upper \cup {"_", "-"}
                      /\ \A i \in 2..Len(original) :
                            original[i] \in Lower \cup Upper \cup Digit \cup {"_", "-"}
        proposal == IF identifier THEN b.prefix \o original
                    ELSE b.prefix \o <<"c","l","a","s","s","-">> \o NatToStr(b.counter)
        used == DOMAIN b.reverseMap
        Suffixed(k) == proposal \o <<"-">> \o NatToStr(k)
        free == { k \in 1..(Cardinality(used) + 1) : Suffixed(k) \notin used }
    IN  IF proposal \notin used THEN proposal
        ELSE Suffixed(CHOOSE k \in free : \A m \in free : k <= m)

\* C12: generateClassName on a not-yet-registered original returns the proposal
\* (prefix + original for a name of identifier shape, prefix + "class-" +
\* counter otherwise) when that is no generated name yet, and otherwise the
\* proposal + "-k" for the smallest unused k >= 1; every generated name begins
\* with the configured prefix.
NameFormat ==
    /\ (lastOp = "generateClassName" /\ lastArg \notin DOMAIN before.classMap)
          => /\ lastResult = FormatName(before, lastArg)
             /\ lastArg \in DOMAIN classNamingSystem.classMap
             /\ classNamingSystem.classMap[lastArg] = lastResult
    /\ \A o \in DOMAIN classNamingSystem.classMap :
          BeginsWith(classNamingSystem.classMap[o], classNamingSystem.prefix)

\* C12 witness: a fallback proposal and its first suffixed form were both
\* generated names already, so the new name carries the suffix -2.
FallbackSecondSuffix ==
    /\ lastOp = "generateClassName"
    /\ lastArg \notin DOMAIN before.classMap
    /\ ~IsValidName(lastArg)
    /\ lastResult = before.prefix \o ClassWord \o NatToStr(before.counter) \o <<"-","2">>

\* The class identifiers of the class tokens of a token sequence.
ClassIdentifiers(ts) ==
    { Tail(ts[i].text) : i \in { j \in 1..Len(ts) : ts[j].kind = "class" } }

\* The rewrite of a selector token by token from the registry state b: a class
\* token .c becomes "." + generateClassName(c), every other token keeps its text.
RECURSIVE RewriteTokens(_, _)
RewriteTokens(b, ts) ==
    IF ts = <<>> THEN [cns |-> b, result |-> <<>>]
    ELSE LET t == Head(ts)
             g == generateClassName(b, Tail(t.text))
             rest == RewriteTokens(IF t.kind = "class" THEN g.cns ELSE b, Tail(ts))
         IN  [cns |-> rest.cns,
              result |-> (IF t.kind = "class" THEN <<".">> \o g.result ELSE t.text)
                         \o rest.result]

\* C13: transformSelector(sel) returns sel with every class token .c replaced by
\* "." + generateClassName(c) and every other character unchanged, and
\* afterwards every class identifier of sel is registered.
SelectorRewrite ==
    lastOp = "transformSelector" =>
        \A ts \in SelectorTokenSequences :
            lastArg = TokensText(ts) =>
                /\ lastResult = RewriteTokens(before, ts).result
                /\ classNamingSystem = RewriteTokens(before, ts).cns
                /\ ClassIdentifiers(ts) \subseteq DOMAIN classNamingSystem.classMap

\* C13 witness: a selector with a class seen for the first time and tokens of
\* other kinds was transformed by a registry that held names already.
StylesheetOnlyClassRewritten ==
    /\ lastOp = "transformSelector"
    /\ \E ts \in SelectorTokenSequences :
          /\ lastArg = TokensText(ts)
          /\ ClassIdentifiers(ts) \ DOMAIN before.classMap # {}
          /\ \E i \in 1..Len(ts) : ts[i].kind \notin {"class", "combinator"}
    /\ DOMAIN before.classMap # {}

\* Calls on the naming system whose results depend on the counter and on the
\* names registered before: fallback names, a name of the fallback's shape,
\* and selectors that register such names.
NamingCalls ==
    { [op |-> "generateClassName", arg |-> o] :
          o \in { <<>>, <<"1">>, <<"c","l","a","s","s","-","1">> } }
        \cup { [op |-> "transformSelector", arg |-> TokensText(ts)] :
                  ts \in { ts \in SelectorTokenSequences :
                              \E i \in 1..Len(ts) :
                                  ts[i].kind = "class" /\ ~IsValidName(Tail(ts[i].text)) } }

MaxReplay == 2

CallSequences == UNION { [1..n -> NamingCalls] : n \in 1..MaxReplay }

\* The object state and the returned values after a sequence of calls.
RECURSIVE Replay(_, _)
Replay(cns, calls) ==
    IF calls = <<>> THEN [cns |-> cns, results |-> <<>>]
    ELSE LET call == Head(calls)
             r == IF call.op = "generateClassName"
                  THEN generateClassName(cns, call.arg)
                  ELSE transformSelector(cns, call.arg)
             rest == Replay(r.cns, Tail(calls))
         IN  [cns |-> rest.cns, results |-> <<r.result>> \o rest.results]

\* C21: after reset, classMap and reverseMap are empty, counter is 0 and the
\* prefix is the one the object had, and every sequence of generateClassName
\* and transformSelector calls returns what it returns on a new
\* ClassNamingSystem with the same prefix, leaving the same object state.
ResetRestoresNewState ==
    lastOp = "reset" =>
        /\ classNamingSystem.classMap = EmptyMap
        /\ classNamingSystem.reverseMap = EmptyMap
        /\ classNamingSystem.counter = 0
        /\ classNamingSystem.prefix = before.prefix
        /\ \A calls \in CallSequences :
              Replay(classNamingSystem, calls)
                  = Replay(NewClassNamingSystem(before.prefix), calls)

\* C21 witness: reset was called on an object that had registered names, one
\* of them a fallback name with a suffix.
ResetAfterRegistrations ==
    /\ lastOp = "reset"
    /\ before.counter >= 2
    /\ \E o \in DOMAIN before.classMap :
          ~IsValidName(o) /\ before.classMap[o] # ProposedName([before EXCEPT !.counter = 0], o)

\* C25: transformSelector leaves every token that is no class token as it is,
\* a dot inside an attribute selector's value included, and registers no
\* identifier other than those of the selector's class tokens.
NonClassTokensPassThrough ==
    lastOp = "transformSelector" =>
        \A ts \in SelectorTokenSequences \cup AttributeValueSequences :
            lastArg = TokensText(ts) =>
                /\ lastResult = RewriteTokens(before, ts).result
                /\ DOMAIN classNamingSystem.classMap
                      \subseteq DOMAIN before.classMap \cup ClassIdentifiers(ts)

\* C29: the uniqueness loop of generateClassName tests at most (number of
\* registered names + 1) names, a registration increments the counter by
\* exactly one, and the counter equals the number of registered originals.
CollisionLoopBounded ==
    /\ classNamingSystem.counter = Cardinality(DOMAIN classNamingSystem.classMap)
    /\ \A o \in Originals \ DOMAIN classNamingSystem.classMap :
          LoopProposals(classNamingSystem.reverseMap,
                        ProposedName(classNamingSystem, o), 0)
              <= Cardinality(DOMAIN classNamingSystem.reverseMap) + 1
    /\ (lastOp = "generateClassName" /\ lastArg \notin DOMAIN before.classMap)
          => /\ LoopProposals(before.reverseMap, ProposedName(before, lastArg), 0)
                    <= Cardinality(DOMAIN before.reverseMap) + 1
             /\ classNamingSystem.counter = before.counter + 1

\* C29 witness: a registration for which the loop tested one name more than
\* the registry held.
LoopRanToItsBound ==
    /\ lastOp = "generateClassName"
    /\ lastArg \notin DOMAIN before.classMap
    /\ Cardinality(DOMAIN before.reverseMap) >= 2
    /\ LoopProposals(before.reverseMap, ProposedName(before, lastArg), 0)
           = Cardinality(DOMAIN before.reverseMap) + 1

(***************************************************************************)
(* Specification SpecSpecificity: calculateSpecificity on selector texts   *)
(* written from tokens of known kinds                                      *)
(***************************************************************************)
\* A selector is written from at most this many tokens.
MaxTokens == 3

SelectorTokens ==
    { Token("id", <<"#","a">>),
      Token("class", <<".","x">>),
      Token("attribute", <<"[","h","]">>),
      Token("pseudoClass", <<":","h","o","v","e","r">>),
      Token("pseudoElement", <<":",":","a","f","t","e","r">>),
      Token("tag", <<"p">>),
      Token("combinator", <<" ">>) }

\* A tag name stands first or after a combinator; a combinator stands between
\* two other tokens.
WellFormed(ts) ==
    /\ Len(ts) > 0
    /\ ts[1].kind # "combinator"
    /\ ts[Len(ts)].kind # "combinator"
    /\ \A i \in 2..Len(ts) :
          /\ ts[i].kind = "tag" => ts[i - 1].kind = "combinator"
          /\ ts[i].kind = "combinator" => ts[i - 1].kind # "combinator"

TokenSequences ==
    { ts \in UNION { [1..n -> SelectorTokens] : n \in 1..MaxTokens } : WellFormed(ts) }

CountKind(ts, kinds) == Cardinality({ i \in 1..Len(ts) : ts[i].kind \in kinds })

SpOnly == UNCHANGED <<regVars, casVars, cvVars>>

SpInit ==
    /\ spTokens \in TokenSequences
    /\ spSelector = TokensText(spTokens)
    /\ specificity = 0
    /\ spPc = "call"

InitSpecificity == SpInit /\ RegUnused /\ CasUnused /\ CvUnused

CalculateSpecificity ==
    /\ spPc = "call"
    /\ specificity' = calculateSpecificity(spSelector)
    /\ spPc' = "returned"
    /\ UNCHANGED <<spTokens, spSelector>>
    /\ SpOnly

NextSpecificity == CalculateSpecificity

SpecSpecificity == InitSpecificity /\ [][NextSpecificity]_vars

\* C10: calculateSpecificity(selector) equals 100 * (id tokens) + 10 * (class,
\* attribute and pseudo-class tokens) + 1 * (tag-name and pseudo-element
\* tokens); class and id names are not counted again as tag names.
SpecificityIsWeightedTokenCount ==
    spPc = "returned" =>
        specificity = 100 * CountKind(spTokens, {"id"})
                      + 10 * CountKind(spTokens, {"class", "attribute", "pseudoClass"})
                      + CountKind(spTokens, {"tag", "pseudoElement"})

(***************************************************************************)
(* Specification SpecCrossover: calculateSpecificity on selectors that     *)
(* chain class tokens, compared with the specificity of "#a"               *)
(***************************************************************************)
\* A selector chains at most this many class tokens.
MaxChain == 10

ChainTokens == { Token("class", <<".","a">>), Token("class", <<".","b","2">>) }

ChainSequences == UNION { [1..n -> ChainTokens] : n \in 1..MaxChain }

IdSelector == <<"#","a">>

CrossoverInit ==
    /\ spTokens \in ChainSequences
    /\ spSelector = TokensText(spTokens)
    /\ specificity = 0
    /\ spPc = "call"

InitCrossover == CrossoverInit /\ RegUnused /\ CasUnused /\ CvUnused

SpecCrossover == InitCrossover /\ [][NextSpecificity]_vars

\* C11: the specificity of "#a" is strictly greater than the specificity of a
\* selector of n chained class tokens for every n from 1 to 9, and is not
\* strictly greater for n = 10.
SpecificityCrossover ==
    spPc = "returned" =>
        /\ Len(spTokens) \in 1..9 => calculateSpecificity(IdSelector) > specificity
        /\ Len(spTokens) = 10 => ~(calculateSpecificity(IdSelector) > specificity)

\* C11 witness: the specificity of a chain of ten class tokens was calculated
\* and is at least that of "#a".
TenClassesReachId ==
    /\ spPc = "returned"
    /\ Len(spTokens) = 10
    /\ specificity >= calculateSpecificity(IdSelector)

(***************************************************************************)
(* Specification SpecCascade: the parser's rules of a stylesheet matched   *)
(* against one element and merged, as applyStylesToElements does for each  *)
(* element                                                                 *)
(***************************************************************************)
\* A stylesheet has at most this many rules.
MaxRules == 3

Decl(prop, value) == [prop |-> prop, value |-> value]

RuleTagRed == RuleNode(<<"p">>, <<Decl("color", "red")>>)
RuleClassBlue == RuleNode(<<".","x">>, <<Decl("color", "blue")>>)
RuleClassRed == RuleNode(<<".","x">>, <<Decl("color", "red"), Decl("margin", "0")>>)
RuleOtherGreen == RuleNode(<<".","y">>, <<Decl("color", "green")>>)
\* .y, p { margin: 1px }
RuleListMargin == RuleNode(<<".","y",","," ","p">>, <<Decl("margin", "1px")>>)

CascadeRuleNodes ==
    { RuleTagRed, RuleClassBlue, RuleClassRed, RuleOtherGreen, RuleListMargin }

CascadeSheets == UNION { [1..n -> CascadeRuleNodes] : n \in 1..MaxRules }

Element(type, classes) == [type |-> type, classes |-> classes, styles |-> NoStyles]

CascadeElements ==
    { Element(<<"p">>, <<<<"x">>>>),
      Element(<<"p">>, <<<<"y">>, <<"x">>>>),
      Element(<<"P">>, <<>>),
      Element(<<"d","i","v">>, <<<<"x">>, <<"y">>>>) }

CasOnly == UNCHANGED <<regVars, spVars, cvVars>>

CasInit ==
    /\ casSheet \in CascadeSheets
    /\ casElement \in CascadeElements
    /\ casRules = <<>>
    /\ casMatching = <<>>
    /\ casPc = "parse"

InitCascade == CasInit /\ RegUnused /\ SpUnused /\ CvUnused

CascadeParse ==
    /\ casPc = "parse"
    /\ casRules' = parseCss(casSheet).styleRules
    /\ casPc' = "match"
    /\ UNCHANGED <<casSheet, casElement, casMatching>>
    /\ CasOnly

CascadeFindMatchingRules ==
    /\ casPc = "match"
    /\ casMatching' = findMatchingRules(casElement, GroupBySelector(casRules))
    /\ casPc' = "apply"
    /\ UNCHANGED <<casSheet, casElement, casRules>>
    /\ CasOnly

CascadeApplyStylesToElement ==
    /\ casPc = "apply"
    /\ Len(casMatching) > 0
    /\ casElement' = applyStylesToElement(casElement, casMatching)
    /\ casPc' = "applied"
    /\ UNCHANGED <<casSheet, casRules, casMatching>>
    /\ CasOnly

CascadeNoMatch ==
    /\ casPc = "apply"
    /\ Len(casMatching) = 0
    /\ casPc' = "applied"
    /\ UNCHANGED <<casSheet, casElement, casRules, casMatching>>
    /\ CasOnly

NextCascade ==
    \/ CascadeParse
    \/ CascadeFindMatchingRules
    \/ CascadeApplyStylesToElement
    \/ CascadeNoMatch

SpecCascade == InitCascade /\ [][NextCascade]_vars

HasClass(element, class) == \E i \in 1..Len(element.classes) : element.classes[i] = class

\* C5: for an element with tag p and class x and the two rules p{color:red} and
\* .x{color:blue}, in either source order, matching and merging yields
\* color = blue.
ClassRuleOverridesTagRule ==
    ( /\ casPc = "applied"
      /\ casElement.type = <<"p">>
      /\ HasClass(casElement, <<"x">>)
      /\ casSheet \in { <<RuleTagRed, RuleClassBlue>>, <<RuleClassBlue, RuleTagRed>> } )
        => /\ "color" \in DOMAIN casElement.styles
           /\ casElement.styles["color"] = "blue"

\* C5 witness: the class rule came first in the source and both rules were merged.
ClassRuleFirstMerged ==
    /\ casPc = "applied"
    /\ casElement.type = <<"p">>
    /\ HasClass(casElement, <<"x">>)
    /\ casSheet = <<RuleClassBlue, RuleTagRed>>
    /\ Len(casMatching) = 2

SetsColor(rule) == \E i \in 1..Len(rule.decls) : rule.decls[i].prop = "color"

ColorOf(rule) ==
    rule.decls[CHOOSE i \in 1..Len(rule.decls) :
                  /\ rule.decls[i].prop = "color"
                  /\ \A j \in (i + 1)..Len(rule.decls) : rule.decls[j].prop # "color"].value

\* C9: when two rules of the stylesheet have the identical selector .x and set
\* color to different values, and the element carries class x, the merged color
\* is the value of the rule that appears later.
LaterRuleWinsTie ==
    ( /\ casPc = "applied"
      /\ HasClass(casElement, <<"x">>)
      /\ Len(casSheet) = 2
      /\ casSheet[1].selector = <<".","x">>
      /\ casSheet[2].selector = <<".","x">>
      /\ SetsColor(casSheet[1]) /\ SetsColor(casSheet[2])
      /\ ColorOf(casSheet[1]) # ColorOf(casSheet[2]) )
        => /\ "color" \in DOMAIN casElement.styles
           /\ casElement.styles["color"] = ColorOf(casSheet[2])

\* C9 witness: two .x rules with different colors were merged for an element
\* of class x.
TieMerged ==
    /\ casPc = "applied"
    /\ HasClass(casElement, <<"x">>)
    /\ casSheet = <<RuleClassBlue, RuleClassRed>>
    /\ Len(casMatching) = 2
    /\ casMatching[1].specificity = casMatching[2].specificity

IsSelectorList(selector) == \E i \in 1..Len(selector) : selector[i] = ","

\* C19: a rule whose selector is a comma-separated list is a cascade candidate
\* for an element whenever one of its parts, trimmed, equals "." + one of the
\* element's class names or equals the element's tag name.
SelectorListRulesAreCandidates ==
    casPc \in {"apply", "applied"} =>
        \A i \in 1..Len(casRules) :
            LET rule == casRules[i]
                byClass == \E k \in 1..Len(casElement.classes) :
                              rule \in Range(parserFindMatchingRules(
                                                casRules, <<".">> \o casElement.classes[k]))
                byTag == rule \in Range(parserFindMatchingRules(
                                           casRules, toLowerCase(casElement.type)))
            IN  (IsSelectorList(rule.selector) /\ (byClass \/ byTag))
                    => rule \in Range(casMatching)

\* C22: the rules matched for an element are merged in ascending
\* (specificity, source order): of two candidates of equal specificity the one
\* later in the stylesheet comes later, whatever their selectors, and each
\* merged property has the value of the latest rule in the stylesheet among
\* the candidates of highest specificity that declare it.
CascadeFollowsSourceOrder ==
    /\ casPc \in {"apply", "applied"} =>
          \A i, j \in 1..Len(casMatching) :
              (i < j /\ casMatching[i].specificity = casMatching[j].specificity)
                  => \E a, b \in 1..Len(casRules) :
                        /\ a <= b
                        /\ casRules[a] = casMatching[i]
                        /\ casRules[b] = casMatching[j]
    /\ casPc = "applied" =>
          \A prop \in DOMAIN casElement.styles :
              LET declaring == { a \in 1..Len(casRules) :
                                   /\ casRules[a] \in Range(casMatching)
                                   /\ prop \in DOMAIN casRules[a].properties }
                  highest == { a \in declaring :
                                 \A b \in declaring :
                                     casRules[b].specificity <= casRules[a].specificity }
                  winner == CHOOSE a \in highest : \A b \in highest : b <= a
              IN  casElement.styles[prop] = casRules[winner].properties[prop]

(***************************************************************************)
(* Specification SpecConvert: ConversionManager.convert, one call after    *)
(* the other on the same manager. A convert call runs from one await to    *)
(* the next in one step.                                                   *)
(***************************************************************************)
WfPrefix == <<"w","f","-">>

ContainerClass == <<"c","o","n","t","a","i","n","e","r">>
TextClass == <<"t","e","x","t">>

\* <div class="container"><p class="text">Hi</p></div>
MarkupContainer ==
    << DomNode(<<"d","i","v">>, ContainerClass, "",
               << DomNode(<<"p">>, TextClass, "Hi", <<>>) >>) >>

\* <section class="__proto__ b"><P class="b 1">Hi</P></section>
MarkupProto ==
    << DomNode(<<"s","e","c","t","i","o","n">>, ProtoKey \o <<" ","b">>, "",
               << DomNode(<<"P">>, <<"b"," ","1">>, "Hi", <<>>) >>) >>

\* <div><p class="text">Hi</p></div><nav class="menu"></nav>
MarkupPlain ==
    << DomNode(<<"d","i","v">>, <<>>, "",
               << DomNode(<<"p">>, TextClass, "Hi", <<>>) >>),
       DomNode(<<"n","a","v">>, <<"m","e","n","u">>, "", <<>>) >>

\* <p class="b b">Hi</p><constructor></constructor>
MarkupCustom ==
    << DomNode(<<"p">>, <<"b"," ","b">>, "Hi", <<>>),
       DomNode(ConstructorKey, <<>>, "", <<>>) >>

Markups == { MarkupContainer, MarkupProto, MarkupPlain, MarkupCustom }

\* .container{width:100%} p{color:red} .text{color:blue}
SheetScenarioRules ==
    << RuleNode(<<".">> \o ContainerClass, <<Decl("width", "100%")>>),
       RuleNode(<<"p">>, <<Decl("color", "red")>>),
       RuleNode(<<".">> \o TextClass, <<Decl("color", "blue")>>) >>

\* div{color:red}
DivRed == RuleNode(<<"d","i","v">>, <<Decl("color", "red")>>)
\* div{color:green}
DivGreen == RuleNode(<<"d","i","v">>, <<Decl("color", "green")>>)

Sheet(root) == [ok |-> TRUE, root |-> root, message |-> ""]

\* Text PostCSS cannot tokenize: process() rejects with a CssSyntaxError.
BadSheet == [ok |-> FALSE, root |-> <<>>, message |-> "Unclosed block"]

Sheets ==
    { Sheet(SheetScenarioRules),
      \* ... @media (max-width: 768px) { .container{width:90%} div{color:green} }
      Sheet(SheetScenarioRules \o
            << AtRuleNode("media", "(max-width: 768px)",
                   << RuleNode(<<".">> \o ContainerClass, <<Decl("width", "90%")>>),
                      DivGreen >>) >>),
      \* div{color:red}
      Sheet(<<DivRed>>),
      \* div{color:red} @media print { @supports (display:grid) { div{color:green} } }
      Sheet(<< DivRed,
               AtRuleNode("media", "print",
                   << AtRuleNode("supports", "(display:grid)", <<DivGreen>>) >>) >>),
      \* div, .text{color:blue} @supports (display:grid) { nav{color:red} }
      Sheet(<< RuleNode(<<"d","i","v",","," ",".">> \o TextClass,
                        <<Decl("color", "blue")>>),
               AtRuleNode("supports", "(display:grid)",
                   << RuleNode(<<"n","a","v">>, <<Decl("color", "red")>>) >>) >>),
      BadSheet }

NoOptions == [k \in {} |-> <<>>]

\* A prefix that ends in a dot.
DotPrefix == <<"n","s",".">>

OptionSets ==
    { NoOptions, [prefix |-> WfPrefix], [prefix |-> <<>>], [prefix |-> DotPrefix] }

\* if (options.prefix): the option is absent or the empty string.
PrefixGiven(options) == "prefix" \in DOMAIN options /\ options.prefix # <<>>

ConfiguredNamingSystem(options) ==
    IF PrefixGiven(options)
    THEN NewClassNamingSystem(options.prefix)
    ELSE NewClassNamingSystem(DefaultPrefix)

\* Variant: the callback is called and the status is not stored.
updateProgressCallbackOnly(mgr, status, progress) ==
    [mgr EXCEPT !.reports = IF mgr.progressCallback
                            THEN Append(@, <<status, progress>>) ELSE @]

\* updateProgress: the status is stored and the callback, when one is set, is
\* called; reports lists the calls the callback received.
updateProgress(mgr, status, progress) ==
    [mgr EXCEPT !.conversionStatus = status,
                !.reports = IF mgr.progressCallback
                            THEN Append(@, <<status, progress>>) ELSE @]

setProgressCallback(mgr) == [mgr EXCEPT !.progressCallback = TRUE]

NewManager ==
    [conversionStatus |-> "idle",
     progressCallback |-> FALSE,
     reports |-> <<>>,
     classNamingSystem |-> NewClassNamingSystem(DefaultPrefix),
     presetsLoaded |-> FALSE,
     createdElements |-> <<>>,
     styleRules |-> <<>>,
     mediaQueries |-> <<>>]

\* The locals of a convert call, its position, what it returned or threw, and
\* the mapper's table as it was when the call was made.
IdleFrame ==
    [pc |-> "idle", createdAtCall |-> <<>>, htmlCode |-> <<>>, cssCode |-> Sheet(<<>>), options |-> NoOptions,
     parsedHtml |-> <<>>, preGenerated |-> NewClassNamingSystem(DefaultPrefix),
     processedCss |-> <<>>, webflowElements |-> <<>>, classMap |-> EmptyMap,
     error |-> ""]

\* convert up to its first await: 'Initializing conversion' is reported and the
\* call waits for elementMapper.initialize().
convertStart(mgr, htmlCode, cssCode, options) ==
    [manager |-> updateProgress(mgr, "Initializing conversion", 0),
     frame |-> [IdleFrame EXCEPT !.pc = "awaitInitialize",
                                 !.createdAtCall = mgr.createdElements,
                                 !.htmlCode = htmlCode,
                                 !.cssCode = cssCode,
                                 !.options = options]]

\* Variant: the naming system of the manager is kept as it is.
convertAfterInitializeKeepsNaming(mgr, fr) ==
    [manager |-> updateProgress(
                   updateProgress([mgr EXCEPT !.presetsLoaded = TRUE],
                                  "Parsing HTML", 10),
                   "Parsing CSS", 30),
     frame |-> [fr EXCEPT !.pc = "awaitParseCss",
                          !.parsedHtml = parseHtml(fr.htmlCode)]]

\* From the end of initialize() to the await of cssParser.parse: the presets
\* are set, a new naming system is configured and the markup is parsed.
convertAfterInitialize(mgr, fr) ==
    [manager |-> updateProgress(
                   updateProgress(
                     [mgr EXCEPT !.presetsLoaded = TRUE,
                                 !.classNamingSystem = ConfiguredNamingSystem(fr.options)],
                     "Parsing HTML", 10),
                   "Parsing CSS", 30),
     frame |-> [fr EXCEPT !.pc = "awaitParseCss",
                          !.parsedHtml = parseHtml(fr.htmlCode)]]

\* Variant: the error is thrown again without a report.
convertCatchSilent(mgr, fr, message) ==
    [manager |-> mgr, frame |-> [fr EXCEPT !.pc = "failed", !.error = message]]

\* The catch block: the error is reported with progress 0 and thrown again.
convertCatch(mgr, fr, message) ==
    [manager |-> updateProgress(mgr, "Error: " \o message, 0),
     frame |-> [fr EXCEPT !.pc = "failed", !.error = message]]

\* From the end of cssParser.parse to the first await of mapToWebflow: the
\* parser's lists are replaced, the classes of the markup are pre-generated on
\* the manager's naming system, the selectors are transformed and the mapper's
\* table is cleared. preGenerated keeps the naming system as it was between
\* preGenerateClassNames and processCssClasses.
convertAfterParseCss(mgr, fr) ==
    LET mapping(parsedCss, cns1, processed) ==
            [manager |-> updateProgress(
                           updateProgress(
                             updateProgress(
                               [mgr EXCEPT !.styleRules = parsedCss.styleRules,
                                           !.mediaQueries = parsedCss.mediaQueries,
                                           !.classNamingSystem = processed.cns,
                                           !.createdElements = <<>>],
                               "Processing HTML classes", 40),
                             "Processing CSS classes", 50),
                           "Creating Webflow elements", 70),
             frame |-> [fr EXCEPT !.pc = "awaitMapToWebflow",
                                  !.preGenerated = cns1,
                                  !.processedCss = processed.processedCss]]
        processing(parsedCss, cns1) ==
            mapping(parsedCss, cns1, processCssClasses(cns1, parsedCss))
    IN  processing(parseCss(fr.cssCode.root),
                   preGenerateClassNames(mgr.classNamingSystem, fr.parsedHtml))

\* The end of convert: 'Conversion complete' is reported and the class map is
\* read from the manager's naming system.
convertComplete(mgr, fr) ==
    [manager |-> updateProgress(mgr, "Conversion complete", 100),
     frame |-> [fr EXCEPT !.pc = "done",
                          !.classMap = getAllClassMappings(mgr.classNamingSystem)]]

CvOnly == UNCHANGED <<regVars, spVars, casVars, frames, objects>>

\* A new manager with a progress callback set, and no call made yet.
CvInit ==
    /\ manager = setProgressCallback(NewManager)
    /\ frame = IdleFrame
    /\ frames = <<>>
    /\ objects = <<>>

InitConvert == CvInit /\ RegUnused /\ SpUnused /\ CasUnused

\* convert is called when no call is in progress; the reports of the call
\* before are dropped.
ConvertCall ==
    \E htmlCode \in Markups, cssCode \in Sheets, options \in OptionSets :
        /\ frame.pc \in {"idle", "done", "failed"}
        /\ \E r \in { convertStart([manager EXCEPT !.reports = <<>>],
                                    htmlCode, cssCode, options) } :
               manager' = r.manager /\ frame' = r.frame
        /\ CvOnly

AfterInitialize ==
    /\ frame.pc = "awaitInitialize"
    /\ \E r \in { convertAfterInitialize(manager, frame) } :
           manager' = r.manager /\ frame' = r.frame
    /\ CvOnly

\* cssParser.parse rejects: the catch block reports the error and rethrows.
ParseCssRejects ==
    /\ frame.pc = "awaitParseCss"
    /\ ~frame.cssCode.ok
    /\ \E r \in { convertCatch(manager, frame, frame.cssCode.message) } :
           manager' = r.manager /\ frame' = r.frame
    /\ CvOnly

AfterParseCss ==
    /\ frame.pc = "awaitParseCss"
    /\ frame.cssCode.ok
    /\ \E r \in { convertAfterParseCss(manager, frame) } :
           manager' = r.manager /\ frame' = r.frame
    /\ CvOnly

\* From the end of mapToWebflow to the await of applyStylesToElements. A call
\* running alone maps the whole tree before anything else happens.
AfterMapToWebflow ==
    /\ frame.pc = "awaitMapToWebflow"
    /\ \E mapped \in { mapToWebflow(loadElementPresets, frame.parsedHtml) } :
       \E mgr \in { [manager EXCEPT !.createdElements = mapped.created] } :
           IF mapped.error
           THEN \E r \in { convertCatch(mgr, frame, "Assignment to constant variable.") } :
                    manager' = r.manager /\ frame' = r.frame
           ELSE /\ manager' = updateProgress(mgr, "Applying styles", 90)
                /\ frame' = [frame EXCEPT !.pc = "awaitApplyStyles",
                                          !.webflowElements = mapped.root]
    /\ CvOnly

\* From the end of applyStylesToElements to the return of convert.
AfterApplyStyles ==
    /\ frame.pc = "awaitApplyStyles"
    /\ \E r \in { convertComplete(
                       [manager EXCEPT !.createdElements =
                           applyStylesToElements(manager.createdElements,
                                                 frame.processedCss)],
                       frame) } :
           manager' = r.manager /\ frame' = r.frame
    /\ CvOnly

NextConvert ==
    \/ ConvertCall
    \/ AfterInitialize
    \/ ParseCssRejects
    \/ AfterParseCss
    \/ AfterMapToWebflow
    \/ AfterApplyStyles

SpecConvert == InitConvert /\ [][NextConvert]_vars

\* The element the mapper created for the parsed element of a given tag name.
RECURSIVE ParsedElements(_)
RECURSIVE ParsedElementsOf(_)
ParsedElementsOf(children) ==
    IF children = <<>> THEN <<>>
    ELSE ParsedElements(Head(children)) \o ParsedElementsOf(Tail(children))

ParsedElements(parsedElement) ==
    <<parsedElement>> \o ParsedElementsOf(parsedElement.children)

\* The styles of every created element, by parsed id.
StylesOf(created) == { <<created[i].key, created[i].element.styles>> : i \in 1..Len(created) }

\* C6: convert of <div class="container"><p class="text">Hi</p></div> with
\* .container{width:100%} p{color:red} .text{color:blue} and prefix "wf-" leaves
\* the element created for the p element with the styles {color: blue}.
ScenarioParagraphIsBlue ==
    ( /\ frame.pc = "done"
      /\ frame.htmlCode = MarkupContainer
      /\ frame.cssCode = Sheet(SheetScenarioRules)
      /\ frame.options = [prefix |-> WfPrefix] )
        => \A e \in Range(ParsedElements(frame.parsedHtml)) :
              e.tagName = <<"p">>
                  => /\ HasKey(manager.createdElements, e.id)
                     /\ Lookup(manager.createdElements, e.id).styles = ("color" :> "blue")

\* The prefix P a convert call is made with: the prefix option, and the default
\* when the call names none.
PrefixOfCall(options) ==
    IF "prefix" \in DOMAIN options THEN options.prefix ELSE DefaultPrefix

MarkupClasses(parsedHtml) ==
    UNION { Range(e.classes) : e \in Range(ParsedElements(parsedHtml)) }

\* C7: the classMap convert returns has an entry for every class identifier on
\* any element of the markup, and for a class of identifier shape whose name
\* P + class no other class was given, the entry is P + class.
ClassMapCoversMarkup ==
    frame.pc = "done" =>
        \A c \in MarkupClasses(frame.parsedHtml) :
            LET P == PrefixOfCall(frame.options)
                all == manager.classNamingSystem.classMap
                collides == \E o \in DOMAIN all \ {c} : all[o] = P \o c
            IN  /\ c \in DOMAIN frame.classMap
                /\ (IsValidName(c) /\ ~collides) => frame.classMap[c] = P \o c

\* The stylesheet without its @media blocks.
RECURSIVE StripMedia(_)
StripMedia(nodes) ==
    IF nodes = <<>> THEN <<>>
    ELSE LET n == Head(nodes)
         IN  (IF n.type = "atrule" /\ n.name = "media" THEN <<>>
              ELSE IF n.type = "atrule"
              THEN << [n EXCEPT !.nodes = StripMedia(n.nodes)] >>
              ELSE <<n>>)
             \o StripMedia(Tail(nodes))

\* The table convert leaves behind for a markup, a stylesheet and options.
ConvertedElements(htmlCode, root, options) ==
    LET parsedHtml == parseHtml(htmlCode)
        cns1 == preGenerateClassNames(ConfiguredNamingSystem(options), parsedHtml)
        processed == processCssClasses(cns1, parseCss(root))
        mapped == mapToWebflow(loadElementPresets, parsedHtml)
    IN  applyStylesToElements(mapped.created, processed.processedCss)

\* C8: the styles convert applies to the elements are the styles it applies for
\* the same stylesheet without the rules that occur only inside @media blocks,
\* at any nesting depth.
MediaRulesDoNotStyle ==
    frame.pc = "done" =>
        StylesOf(manager.createdElements)
            = StylesOf(ConvertedElements(frame.htmlCode, StripMedia(frame.cssCode.root),
                                         frame.options))

\* The class identifiers of the markup in depth-first document order: parent
\* before children, siblings left to right, classes in class-list order.
RECURSIVE ConcatClasses(_)
ConcatClasses(elements) ==
    IF elements = <<>> THEN <<>>
    ELSE Head(elements).classes \o ConcatClasses(Tail(elements))

DocumentOrderClasses(parsedHtml) == ConcatClasses(ParsedElements(parsedHtml))

PastPreGeneration == frame.pc \in {"awaitMapToWebflow", "awaitApplyStyles", "done"}

\* C14: in a convert run, when the first selector is transformed the naming
\* system is the one of the run with generateClassName called for every class
\* identifier of the markup in depth-first document order and nothing else;
\* the generated name of a markup class is the one it got then, whatever the
\* stylesheet holds.
MarkupClassesRegisteredFirst ==
    PastPreGeneration =>
        /\ frame.preGenerated =
               GenerateAll(ConfiguredNamingSystem(frame.options),
                           DocumentOrderClasses(frame.parsedHtml))
        /\ \A c \in MarkupClasses(frame.parsedHtml) :
               /\ c \in DOMAIN manager.classNamingSystem.classMap
               /\ manager.classNamingSystem.classMap[c] = frame.preGenerated.classMap[c]

\* C14 witness: the markup has a class whose name depends on the order of
\* registration, and the stylesheet registered classes of its own afterwards.
FallbackNamedBeforeStylesheet ==
    /\ PastPreGeneration
    /\ \E c \in MarkupClasses(frame.parsedHtml) : ~IsValidName(c)
    /\ DOMAIN manager.classNamingSystem.classMap # DOMAIN frame.preGenerated.classMap

\* C16: when cssParser.parse rejects, convert rejects with the same error, the
\* last report is ("Error: <message>", 0), and the run generated no class name,
\* mapped no element and applied no style.
StylesheetFailureAbortsRun ==
    (frame.pc = "failed" /\ ~frame.cssCode.ok) =>
        /\ frame.error = frame.cssCode.message
        /\ manager.reports =
               << <<"Initializing conversion", 0>>, <<"Parsing HTML", 10>>,
                  <<"Parsing CSS", 30>>,
                  <<"Error: " \o frame.cssCode.message, 0>> >>
        /\ manager.conversionStatus = "Error: " \o frame.cssCode.message
        /\ manager.classNamingSystem.classMap = EmptyMap
        /\ manager.classNamingSystem.reverseMap = EmptyMap
        /\ manager.classNamingSystem.counter = 0
        /\ manager.createdElements = frame.createdAtCall
        /\ frame.classMap = EmptyMap

\* C16 witness: a run failed on its stylesheet after an earlier run on the same
\* manager had mapped and styled elements.
FailedAfterCompletedRun ==
    /\ frame.pc = "failed"
    /\ ~frame.cssCode.ok
    /\ \E i \in 1..Len(manager.createdElements) :
          manager.createdElements[i].element.styles # NoStyles

\* C17: in a convert run that completes without error the progress values
\* reported are strictly increasing, the first is 0, the last report is
\* ("Conversion complete", 100), and conversionStatus is "Conversion complete"
\* when convert resolves.
ProgressProtocol ==
    LET reports == manager.reports
    IN  /\ frame.pc \notin {"idle", "failed", "unused"} =>
              /\ Len(reports) > 0
              /\ reports[1][2] = 0
              /\ \A i \in 1..(Len(reports) - 1) : reports[i][2] < reports[i + 1][2]
        /\ frame.pc = "done" =>
              /\ reports[Len(reports)] = <<"Conversion complete", 100>>
              /\ manager.conversionStatus = "Conversion complete"

\* C17 witness: a run completed and made its eight reports, from
\* 'Initializing conversion' to 'Conversion complete'.
RunCompletedWithAllReports ==
    /\ frame.pc = "done"
    /\ Len(manager.reports) = 8
    /\ manager.reports[1] = <<"Initializing conversion", 0>>
    /\ manager.createdElements # <<>>

\* The declaration blocks of a stylesheet that are not nested in an @media
\* block, in source order.
RECURSIVE BlocksOutsideMedia(_)
BlocksOutsideMedia(nodes) ==
    IF nodes = <<>> THEN <<>>
    ELSE LET n == Head(nodes)
         IN  (IF n.type = "rule" THEN <<n>>
              ELSE IF n.name = "media" THEN <<>>
              ELSE BlocksOutsideMedia(n.nodes))
             \o BlocksOutsideMedia(Tail(nodes))

\* The declaration blocks nested in a block, in source order.
RECURSIVE BlocksInside(_)
BlocksInside(nodes) ==
    IF nodes = <<>> THEN <<>>
    ELSE LET n == Head(nodes)
         IN  (IF n.type = "rule" THEN <<n>> ELSE BlocksInside(n.nodes))
             \o BlocksInside(Tail(nodes))

\* The @media blocks of a stylesheet, in source order.
RECURSIVE MediaBlocks(_)
MediaBlocks(nodes) ==
    IF nodes = <<>> THEN <<>>
    ELSE LET n == Head(nodes)
         IN  (IF n.type = "rule" THEN <<>>
              ELSE (IF n.name = "media" THEN <<n>> ELSE <<>>) \o MediaBlocks(n.nodes))
             \o MediaBlocks(Tail(nodes))

\* The rules are one per block, in order, each with the block's selector text.
RulesAreBlocks(rules, blocks) ==
    /\ Len(rules) = Len(blocks)
    /\ \A i \in 1..Len(rules) :
          /\ rules[i].selector = blocks[i].selector
          /\ rules[i].originalRule.decls = blocks[i].decls

\* C18: parse returns in styleRules exactly one rule per declaration block that
\* is not nested in an @media block, in source order, each with the block's full
\* selector text, and in mediaQueries exactly one group per @media block, with
\* the block's parameter string as query and the blocks nested in it as rules.
ParserOutputShape ==
    PastPreGeneration =>
        LET root == frame.cssCode.root
            media == MediaBlocks(root)
        IN  /\ RulesAreBlocks(manager.styleRules, BlocksOutsideMedia(root))
            /\ Len(manager.mediaQueries) = Len(media)
            /\ \A i \in 1..Len(media) :
                  /\ manager.mediaQueries[i].query = media[i].params
                  /\ RulesAreBlocks(manager.mediaQueries[i].rules,
                                    BlocksInside(media[i].nodes))

Mapped == frame.pc \in {"awaitApplyStyles", "done"}

\* C20: after mapToWebflow(tree) resolves, the table of created elements holds
\* exactly one entry per element of tree and nothing of earlier mappings; the
\* entry of parsed id X has the id "webflow-" + X, the parsed element's type and
\* content, and as children the ids of the mapped children in document order;
\* the value returned is the entry of the root.
MapperStructure ==
    Mapped =>
        LET parsed == ParsedElements(frame.parsedHtml)
            table == manager.createdElements
        IN  /\ Len(table) = Len(parsed)
            /\ \A i \in 1..Len(parsed) :
                  LET e == parsed[i]
                      entries == { k \in 1..Len(table) : table[k].key = e.id }
                  IN  /\ Cardinality(entries) = 1
                      /\ \A k \in entries :
                            /\ table[k].element.id = <<"webflow">> \o e.id
                            /\ table[k].element.type = e.type
                            /\ IF e.content # ""
                               THEN /\ "content" \in DOMAIN table[k].element
                                    /\ table[k].element.content = e.content
                               ELSE "content" \notin DOMAIN table[k].element
                            /\ table[k].element.children =
                                  [j \in 1..Len(e.children) |->
                                      <<"webflow">> \o e.children[j].id]
            /\ frame.webflowElements = frame.parsedHtml.id

\* C20 witness: a tree whose root has two children was mapped into a table
\* that held the elements of a smaller tree from an earlier mapping.
MappedOverEarlierTable ==
    /\ frame.pc = "awaitApplyStyles"
    /\ Len(frame.createdAtCall) > 0
    /\ Len(frame.createdAtCall) < Len(manager.createdElements)
    /\ Len(frame.parsedHtml.children) = 2

\* The rules carry the specificity of their selector as it is now, and keep
\* the selector of the parsed rule as originalSelector.
RulesFollowSelector(rules, parsedRules) ==
    /\ Len(rules) = Len(parsedRules)
    /\ \A i \in 1..Len(rules) :
          /\ rules[i].specificity = calculateSpecificity(rules[i].selector)
          /\ rules[i].originalSelector = parsedRules[i].selector

\* C23: for every rule processCssClasses produces, at top level and inside
\* the media groups, and every prefix, specificity equals
\* calculateSpecificity of the rewritten selector and originalSelector is the
\* selector as parsed.
SpecificityFollowsSelector ==
    PastPreGeneration =>
        /\ RulesFollowSelector(frame.processedCss.styleRules, manager.styleRules)
        /\ Len(frame.processedCss.mediaQueries) = Len(manager.mediaQueries)
        /\ \A k \in 1..Len(manager.mediaQueries) :
              RulesFollowSelector(frame.processedCss.mediaQueries[k].rules,
                                  manager.mediaQueries[k].rules)

\* How many of the rules were made from a block of this selector and these
\* declarations, and how many of the blocks are that block.
RulesOfBlock(rules, block) ==
    Cardinality({ i \in 1..Len(rules) :
                    rules[i].originalRule =
                        [selector |-> block.selector, decls |-> block.decls] })

BlockCount(blocks, block) == Cardinality({ i \in 1..Len(blocks) : blocks[i] = block })

\* C24: a declaration block nested in an @media block, directly or through
\* other at-rules, is no rule of the styleRules parse returns, and it is a rule
\* of the media group of its enclosing @media block and of no other group.
GroupSeparation ==
    PastPreGeneration =>
        LET root == frame.cssCode.root
            media == MediaBlocks(root)
        IN  /\ Len(manager.mediaQueries) = Len(media)
            /\ \A k \in 1..Len(media) :
                  \A block \in Range(BlocksInside(media[k].nodes)) :
                      /\ RulesOfBlock(manager.styleRules, block)
                            = BlockCount(BlocksOutsideMedia(root), block)
                      /\ \A j \in 1..Len(media) :
                            RulesOfBlock(manager.mediaQueries[j].rules, block)
                                = BlockCount(BlocksInside(media[j].nodes), block)

\* A selector that is a tag name and nothing else.
IsBareTag(selector) ==
    /\ selector # <<>>
    /\ \A i \in 1..Len(selector) : selector[i] \in Lower \cup Upper \cup Digit

\* C26: during convert, a rule whose selector is a bare tag name is among the
\* matching rules of every element whose HTML tag name equals the selector
\* ignoring letter case.
TagRulesMatchByTagName ==
    frame.pc = "done" =>
        \A e \in Range(ParsedElements(frame.parsedHtml)) :
            \A r \in Range(frame.processedCss.styleRules) :
                (IsBareTag(r.originalSelector)
                    /\ toLowerCase(r.originalSelector) = toLowerCase(e.tagName))
                  => /\ HasKey(manager.createdElements, e.id)
                     /\ r \in Range(findMatchingRules(
                                        Lookup(manager.createdElements, e.id),
                                        GroupBySelector(frame.processedCss.styleRules)))
                     /\ \A prop \in DOMAIN r.properties :
                           prop \in DOMAIN Lookup(manager.createdElements, e.id).styles

\* The list without the entries that occurred earlier in it.
RECURSIVE Dedup(_)
Dedup(seq) ==
    IF seq = <<>> THEN <<>>
    ELSE LET init == Dedup(SubSeq(seq, 1, Len(seq) - 1))
             last == seq[Len(seq)]
         IN  IF last \in Range(init) THEN init ELSE Append(init, last)

\* The runs of characters other than white space in a class attribute.
RECURSIVE AttributeIdentifiers(_, _)
AttributeIdentifiers(attr, current) ==
    IF attr = <<>> THEN (IF current = <<>> THEN <<>> ELSE <<current>>)
    ELSE IF Head(attr) \in {" ", "\t", "\n"}
    THEN (IF current = <<>> THEN <<>> ELSE <<current>>)
         \o AttributeIdentifiers(Tail(attr), <<>>)
    ELSE AttributeIdentifiers(Tail(attr), Append(current, Head(attr)))

Parsed == frame.pc \notin {"idle", "awaitInitialize", "unused"}

\* C27: in the tree HTMLParser.parse returns no two elements have the same
\* id, and the classes list of each element holds the identifiers of its class
\* attribute in attribute order, without empty entries and without duplicates.
ParsedIdsAndClasses ==
    Parsed =>
        LET parsed == ParsedElements(frame.parsedHtml)
            nodes == ParsedElements(DomNode(BodyTag, <<>>, "", frame.htmlCode))
        IN  /\ Len(parsed) = Len(nodes)
            /\ \A i, j \in 1..Len(parsed) : parsed[i].id = parsed[j].id => i = j
            /\ \A i \in 1..Len(parsed) :
                  /\ <<>> \notin Range(parsed[i].classes)
                  /\ parsed[i].classes
                        = Dedup(AttributeIdentifiers(nodes[i].class, <<>>))

\* The mapping of the tree has been tried: the stylesheet was parsed and the
\* call is past mapToWebflow or has thrown.
MappingTried ==
    /\ frame.pc \in {"awaitApplyStyles", "done", "failed"}
    /\ frame.cssCode.ok

\* C28: mapElement on a parsed element whose type has no entry in the element
\* presets does not throw, and creates the element with the div preset.
FallbackPreset ==
    MappingTried =>
        \A e \in Range(ParsedElements(frame.parsedHtml)) :
            e.type \notin DOMAIN loadElementPresets
                => /\ frame.pc # "failed"
                   /\ HasKey(manager.createdElements, e.id)
                   /\ Lookup(manager.createdElements, e.id).preset
                         = loadElementPresets[DivType]

(***************************************************************************)
(* Specification SpecOverlap: two convert calls on one ConversionManager   *)
(* that are in progress at the same time. A call runs from one await to    *)
(* the next in one step, and the steps of the two calls interleave. No     *)
(* progress callback is set.                                               *)
(***************************************************************************)
Calls == {1, 2}

\* The arguments a call is made with.
OverlapArguments ==
    { [htmlCode |-> MarkupContainer, cssCode |-> Sheet(SheetScenarioRules),
       options |-> [prefix |-> WfPrefix]],
      [htmlCode |-> MarkupContainer, cssCode |-> Sheet(<<DivRed>>),
       options |-> NoOptions],
      [htmlCode |-> MarkupPlain, cssCode |-> Sheet(<<DivRed>>),
       options |-> NoOptions],
      [htmlCode |-> MarkupPlain, cssCode |-> BadSheet,
       options |-> [prefix |-> WfPrefix]] }

\* The object a call creates for a parsed element, named by the call and the
\* parsed id.
Ref(call, parsedId) == <<call, parsedId>>

NoObjects == [r \in {} |-> <<>>]

\* The locals of a call that maps and styles element by element: work is the
\* stack of mapElement calls still to make, pending the elements of the
\* snapshot of getAllWebflowElements() still to style.
OverlapFrame == [work |-> <<>>, pending |-> <<>>] @@ IdleFrame

WorkItem(parsedElement, hasParent, parent) ==
    [element |-> parsedElement, hasParent |-> hasParent, parent |-> parent]

\* One mapElement call up to its children loop: the object is created (and its
\* id pushed on the parent object's children) and stored under the parsed id.
mapOneElement(objs, created, elementPresets, call, item) ==
    LET parsedElement == item.element
        preset == elementPresets[parsedElement.type]
        webflowElement ==
            WithContent(
                IF item.hasParent
                THEN createChildElement(parsedElement, preset, objs[item.parent].id)
                ELSE createRootElement(parsedElement, preset),
                parsedElement)
        ref == Ref(call, parsedElement.id)
        linked == IF item.hasParent
                  THEN [objs EXCEPT ![item.parent].children = Append(@, webflowElement.id)]
                  ELSE objs
    IN  [objects |-> (ref :> webflowElement) @@ linked,
         created |-> MapSet(created, parsedElement.id, ref),
         work |-> [j \in 1..Len(parsedElement.children) |->
                      WorkItem(parsedElement.children[j], TRUE, ref)]]

\* The loop of applyStylesToElements from one await to the next: the elements
\* without matching rule are passed over, the first element with matching
\* rules gets its merged properties, and the loop waits.
RECURSIVE styleUntilAwait(_, _, _)
styleUntilAwait(objs, pending, stylesBySelector) ==
    IF pending = <<>> THEN [objects |-> objs, pending |-> <<>>]
    ELSE LET ref == Head(pending)
             matchingRules == findMatchingRules(objs[ref], stylesBySelector)
         IN  IF Len(matchingRules) > 0
             THEN [objects |-> [objs EXCEPT
                                   ![ref] = applyStylesToElement(@, matchingRules)],
                   pending |-> Tail(pending)]
             ELSE styleUntilAwait(objs, Tail(pending), stylesBySelector)

OvInit ==
    /\ manager = NewManager
    /\ frame = [pc |-> "unused"]
    /\ frames = [c \in Calls |-> OverlapFrame]
    /\ objects = NoObjects

InitOverlap == OvInit /\ RegUnused /\ SpUnused /\ CasUnused

OvOnly == UNCHANGED <<regVars, spVars, casVars, frame>>

OverlapConvertCall ==
    \E c \in Calls, a \in OverlapArguments :
        /\ frames[c].pc = "idle"
        /\ \E r \in { convertStart(manager, a.htmlCode, a.cssCode, a.options) } :
               /\ manager' = r.manager
               /\ frames' = [frames EXCEPT ![c] = r.frame @@ OverlapFrame]
        /\ UNCHANGED objects
        /\ OvOnly

OverlapAfterInitialize ==
    \E c \in Calls :
        /\ frames[c].pc = "awaitInitialize"
        /\ \E r \in { convertAfterInitialize(manager, frames[c]) } :
               /\ manager' = r.manager
               /\ frames' = [frames EXCEPT ![c] = r.frame]
        /\ UNCHANGED objects
        /\ OvOnly

OverlapParseCssRejects ==
    \E c \in Calls :
        /\ frames[c].pc = "awaitParseCss"
        /\ ~frames[c].cssCode.ok
        /\ \E r \in { convertCatch(manager, frames[c], frames[c].cssCode.message) } :
               /\ manager' = r.manager
               /\ frames' = [frames EXCEPT ![c] = r.frame]
        /\ UNCHANGED objects
        /\ OvOnly

\* As in a call running alone, up to the first await of mapToWebflow; the
\* mapElement call for the root is the work to do.
OverlapAfterParseCss ==
    \E c \in Calls :
        /\ frames[c].pc = "awaitParseCss"
        /\ frames[c].cssCode.ok
        /\ \E r \in { convertAfterParseCss(manager, frames[c]) } :
               /\ manager' = r.manager
               /\ frames' = [frames EXCEPT ![c] =
                      [r.frame EXCEPT !.work =
                          << WorkItem(r.frame.parsedHtml, FALSE,
                                      Ref(c, r.frame.parsedHtml.id)) >>]]
        /\ UNCHANGED objects
        /\ OvOnly

\* The next mapElement call of the depth-first walk; a type without preset
\* throws into the catch block of convert.
OverlapMapElement ==
    \E c \in Calls :
        /\ frames[c].pc = "awaitMapToWebflow"
        /\ frames[c].work # <<>>
        /\ \E item \in { Head(frames[c].work) } :
               IF item.element.type \notin DOMAIN loadElementPresets
               THEN \E r \in { convertCatch(manager, frames[c],
                                            "Assignment to constant variable.") } :
                        /\ manager' = r.manager
                        /\ frames' = [frames EXCEPT ![c] = r.frame]
                        /\ UNCHANGED objects
               ELSE \E m \in { mapOneElement(objects, manager.createdElements,
                                             loadElementPresets, c, item) } :
                        /\ objects' = m.objects
                        /\ manager' = [manager EXCEPT !.createdElements = m.created]
                        /\ frames' = [frames EXCEPT
                               ![c].work = m.work \o Tail(frames[c].work)]
        /\ OvOnly

\* mapToWebflow has resolved: 'Applying styles' is reported, the snapshot of
\* the table's values is taken and the loop runs to its first await.
OverlapAfterMapToWebflow ==
    \E c \in Calls :
        /\ frames[c].pc = "awaitMapToWebflow"
        /\ frames[c].work = <<>>
        /\ \E r \in { styleUntilAwait(
                           objects,
                           [k \in 1..Len(manager.createdElements) |->
                               manager.createdElements[k].element],
                           GroupBySelector(frames[c].processedCss.styleRules)) } :
               /\ objects' = r.objects
               /\ frames' = [frames EXCEPT ![c].pc = "awaitApplyStyles",
                                           ![c].webflowElements =
                                               Ref(c, frames[c].parsedHtml.id),
                                           ![c].pending = r.pending]
        /\ manager' = updateProgress(manager, "Applying styles", 90)
        /\ OvOnly

\* The loop of applyStylesToElements goes on to its next await.
OverlapApplyStyles ==
    \E c \in Calls :
        /\ frames[c].pc = "awaitApplyStyles"
        /\ frames[c].pending # <<>>
        /\ \E r \in { styleUntilAwait(
                           objects, frames[c].pending,
                           GroupBySelector(frames[c].processedCss.styleRules)) } :
               /\ objects' = r.objects
               /\ frames' = [frames EXCEPT ![c].pending = r.pending]
        /\ UNCHANGED manager
        /\ OvOnly

\* applyStylesToElements has resolved: convert completes and returns.
OverlapComplete ==
    \E c \in Calls :
        /\ frames[c].pc = "awaitApplyStyles"
        /\ frames[c].pending = <<>>
        /\ \E r \in { convertComplete(manager, frames[c]) } :
               /\ manager' = r.manager
               /\ frames' = [frames EXCEPT ![c] = r.frame]
        /\ UNCHANGED objects
        /\ OvOnly

NextOverlap ==
    \/ OverlapConvertCall
    \/ OverlapAfterInitialize
    \/ OverlapParseCssRejects
    \/ OverlapAfterParseCss
    \/ OverlapMapElement
    \/ OverlapAfterMapToWebflow
    \/ OverlapApplyStyles
    \/ OverlapComplete

SpecOverlap == InitOverlap /\ [][NextOverlap]_vars

\* The class identifiers of the selectors of a stylesheet.
StylesheetClasses(root) ==
    DOMAIN processCssClasses(NewClassNamingSystem(DefaultPrefix),
                             parseCss(root)).cns.classMap

\* C15: when two convert calls on one manager interleave at their awaits, the
\* classMap a call returns holds only class identifiers of that call's own
\* markup and stylesheet, with names that begin with that call's own prefix.
OverlappedRunsKeepOwnClasses ==
    \A c \in Calls :
        frames[c].pc = "done" =>
            \A o \in DOMAIN frames[c].classMap :
                /\ o \in MarkupClasses(frames[c].parsedHtml)
                          \cup StylesheetClasses(frames[c].cssCode.root)
                /\ BeginsWith(frames[c].classMap[o],
                              ConfiguredNamingSystem(frames[c].options).prefix)

(***************************************************************************)
(* Sequential runs, checked under SpecConvert                              *)
(***************************************************************************)
\* The class map a convert call returns on a new manager.
ConvertedClassMap(htmlCode, root, options) ==
    getAllClassMappings(
        processCssClasses(
            preGenerateClassNames(ConfiguredNamingSystem(options), parseHtml(htmlCode)),
            parseCss(root)).cns)

\* C30: a convert call returns the classMap and leaves the elements and
\* applied styles that a call with the same markup, stylesheet and options
\* returns on a new manager, whatever calls the manager ran before, and its
\* classMap holds only class identifiers of its own markup and stylesheet.
ReproducibleRuns ==
    frame.pc = "done" =>
        /\ frame.classMap
              = ConvertedClassMap(frame.htmlCode, frame.cssCode.root, frame.options)
        /\ manager.createdElements
              = ConvertedElements(frame.htmlCode, frame.cssCode.root, frame.options)
        /\ DOMAIN frame.classMap
              \subseteq MarkupClasses(frame.parsedHtml)
                            \cup StylesheetClasses(frame.cssCode.root)

\* C30 witness: a call completed on a manager whose earlier call had left
\* other elements and styles, and returned a class map with entries.
CompletedAfterOtherRun ==
    /\ frame.pc = "done"
    /\ frame.createdAtCall # <<>>
    /\ frame.createdAtCall # manager.createdElements
    /\ \E i \in 1..Len(frame.createdAtCall) :
          frame.createdAtCall[i].element.styles # NoStyles
    /\ frame.classMap # EmptyMap

====
